---------------------------- MODULE Spec2Model ----------------------------
(***************************************************************************)
(* A model of the smart-contract indexer: the checkpointed driver loop of  *)
(* src/main.py, the checkpoint store of src/core/localdb.py, the dispatch  *)
(* of src/core/processors.py and the nominator-pool handler of             *)
(* src/handlers/new_nominator_pool.py writing to the result store declared *)
(* in src/contracts_db/database.py.                                        *)
(*                                                                         *)
(* Addresses are pairs <<workchain, hash>>, the hash an integer: the raw  *)
(* string "0:00..01" is <<0, 1>>.  Amounts are integers in the ledger's     *)
(* smallest unit.                                                          *)
(***************************************************************************)
EXTENDS Integers, Sequences, FiniteSets, TLC

(***************************************************************************)
(* Bounds of the model.                                                    *)
(***************************************************************************)
\* largest timestamp the archive ever shows for an account
MaxTime == 2
\* number of times the process is started again after a crash
MaxBoots == 1
MaxBatch == 12

(***************************************************************************)
(* Program constants.                                                      *)
(***************************************************************************)
\* aiometer.amap(..., max_at_once=9, ...)
max_at_once == 9
\* the fixed service fee subtracted from a deposit: msg.value - 10**9
ServiceFee == 1000000000
\* a withdrawal is more than 1 TON: msg.value < 10**9 is skipped
OneTon == 1000000000
\* search for withdrawal request max 36 hours ago: 36 * 3600
WithdrawWindow == 129600
\* op code of recover_stake_ok: 0xF96F7324 (kept symbolic: it exceeds 2^31)
RecoverStakeOk == "recover_stake_ok"
\* prev_block_seqno = args.block_seqno - 5
LookbackBlocks == 5
\* validator_reward = int(reward * validator_share / 10000)
ShareDenominator == 10000

(***************************************************************************)
(* The ledger the indexer reads.  Two nominator pools on the masterchain,  *)
(* two depositors on the basechain, and the elector.                       *)
(***************************************************************************)
PoolA == <<-1, 10>>
PoolB == <<-1, 11>>
Pools == {PoolA, PoolB}
N1 == <<0, 1>>
N2 == <<0, 2>>
\* "-1:3333333333333333333333333333333333333333333333333333333333333333"
Elector == <<-1, 3333>>

\* op code 0: a text comment follows
OpText == "0x00000000"

\* addr_hash_wc0_parse followed by to_str(False).upper(): the dictionary key
\* is the 256-bit hash, the owner string is the raw basechain address.
addr_hash_wc0_parse(h) == <<0, h>>

\* a dictionary cell: absent, or present with the mapping HashMap.parse yields
NoDict == [present |-> FALSE, dict |-> << >>]
Dict(d) == [present |-> TRUE, dict |-> d]

\* The storage of pool p as the lite server returns it when the archive shows
\* timestamp t for p (the fields parse_pool reads, in its order).
ChainState(p, t) ==
    IF p = PoolA
    THEN IF t <= 1
         THEN [state |-> 0, nominators_count |-> 1, stake_amount_sent |-> 0,
               validator_amount |-> 50,
               nominators |-> Dict((1 :> <<5, 0>>)), withdraw_requests |-> NoDict]
         ELSE [state |-> 2, nominators_count |-> 1, stake_amount_sent |-> 7,
               validator_amount |-> 50,
               nominators |-> Dict((2 :> <<7, 1>>)), withdraw_requests |-> NoDict]
    ELSE IF t <= 1
         THEN [state |-> 0, nominators_count |-> 0, stake_amount_sent |-> 0,
               validator_amount |-> 20,
               nominators |-> NoDict, withdraw_requests |-> NoDict]
         ELSE [state |-> 2, nominators_count |-> 2, stake_amount_sent |-> 1000,
               validator_amount |-> 20,
               nominators |-> Dict((1 :> <<436, 0>>) @@ (2 :> <<654, 0>>)),
               withdraw_requests |-> NoDict]

\* LatestAccountState.balance of p at timestamp t
Balance(p, t) == IF t <= 1 THEN 100 ELSE 200

\* One row of the message query: Message joined with its body and the
\* description of its transaction.
Msg(src, dst, val, at, lt, op, letter) ==
    [source |-> src, destination |-> dst, value |-> val, created_at |-> at,
     created_lt |-> lt, exit_code |-> 0, action_code |-> 0, op |-> op,
     letter |-> letter, body_empty |-> (op = "none"), bounce |-> FALSE,
     block_seqno |-> 5 + lt]

\* The archive's message history, ordered by created_lt.  The deposit to PoolA
\* is returned twice by the join.
ArchiveMessages ==
    << Msg(N1, PoolA, 2000000000, 1, 10, OpText, "d"),
       Msg(N1, PoolA, 2000000000, 1, 10, OpText, "d"),
       Msg(N1, PoolA, 100000000, 2, 20, OpText, "w"),
       Msg(PoolA, N1, 1500000000, 3, 30, "none", ""),
       Msg(Elector, PoolB, 1100, 2, 40, RecoverStakeOk, ""),
       Msg(N2, PoolB, 1000000005, 3, 50, OpText, "d") >>

\* lite_client.run_get_method(pool, "get_pool_data", [], on_block) for the
\* masterchain block with this seqno: found is whether the archive has the
\* block, call_ok whether the call returned.
GetPoolDataAt(p, seqno) ==
    IF p = PoolB /\ seqno = 40
    THEN [found |-> TRUE, call_ok |-> TRUE, stake_amount_sent |-> 1000,
          validator_share |-> 1000,
          nominators |-> Dict((1 :> <<400, 0>>) @@ (2 :> <<600, 0>>))]
    ELSE [found |-> FALSE, call_ok |-> FALSE, stake_amount_sent |-> 0,
          validator_share |-> 0, nominators |-> NoDict]

(***************************************************************************)
(* Helpers on sequences.                                                   *)
(***************************************************************************)
RECURSIVE SetToSortedSeq(_)
SetToSortedSeq(S) ==
    IF S = {} THEN << >>
    ELSE LET m == CHOOSE x \in S : \A y \in S : x <= y
         IN  <<m>> \o SetToSortedSeq(S \ {m})

\* the keys of a parsed dictionary in the order of the trie (ascending bits)
DictKeys(d) == SetToSortedSeq(DOMAIN d)

RECURSIVE Concat(_)
Concat(ss) == IF ss = << >> THEN << >> ELSE Head(ss) \o Concat(Tail(ss))

\* int(x / d) for d > 0: Python's int() truncates toward zero
TruncDiv(x, d) == IF x >= 0 THEN x \div d ELSE -((-x) \div d)

(***************************************************************************)
(* The reconstruction of a pool's ledger from its message history          *)
(* (handle_nominator_pool, the part that touches no store).                *)
(***************************************************************************)
\* q.filter(Message.created_at > processing_from_time).order_by(created_lt)
query_msgs_to_pool_any_time(history, p, from_time) ==
    SelectSeq(history, LAMBDA m : m.destination = p)

\* q.filter(Message.created_at > processing_from_time).order_by(created_lt)
\* .filter(Message.destination == pool_address_str, direction == "in")
query_msgs_to_pool(history, p, from_time) ==
    SelectSeq(history, LAMBDA m : m.destination = p /\ m.created_at > from_time)

\* ... .filter(Message.source == pool_address_str, direction == "out")
query_msgs_from_pool(history, p, from_time) ==
    SelectSeq(history, LAMBDA m : m.source = p /\ m.created_at > from_time)

msgs_to_pool(p, from_time) == query_msgs_to_pool(ArchiveMessages, p, from_time)

msgs_from_pool(p, from_time) == query_msgs_from_pool(ArchiveMessages, p, from_time)

\* if exit_code != 0 or action_code != 0: continue
TxFailed(m) == m.exit_code # 0 \/ m.action_code # 0

IsDepositAnyTx(m) == m.op = OpText /\ m.letter = "d"

IsDeposit(m) == ~TxFailed(m) /\ m.op = OpText /\ m.letter = "d"

IsWithdrawRequest(m) == ~TxFailed(m) /\ m.op = OpText /\ m.letter = "w"

IsIncome(m) == ~TxFailed(m) /\ m.op = RecoverStakeOk

DepositBooking(m) ==
    [lt |-> m.created_lt, utime |-> m.created_at, subaccount_address |-> m.source,
     debit |-> 0, credit |-> m.value - ServiceFee, type |-> "nominator_deposit"]

DepositBookings(msgs) ==
    LET d == SelectSeq(msgs, IsDeposit)
    IN  [i \in 1..Len(d) |-> DepositBooking(d[i])]

\* withdrawal_requests[source]: the request times of one address, in lt order
withdrawal_requests(msgs, a) ==
    LET w == SelectSeq(msgs, LAMBDA m : IsWithdrawRequest(m) /\ m.source = a)
    IN  [i \in 1..Len(w) |-> w[i].created_at]

\* the historical lookup of process_recover_stake gave nothing to book
LookupSkipped(lk) ==
    \/ ~lk.found
    \/ ~lk.call_ok
    \/ ~lk.nominators.present
    \/ DOMAIN lk.nominators.dict = {}

IncomeRaisesOnFailedLookup(lk, m) ==
    \/ m.source # Elector
    \/ LookupSkipped(lk)
    \/ lk.stake_amount_sent = 0

\* process_recover_stake with the lookup result lk raises: the assert on the
\* source, or the division balance / stake_amount_sent_before by zero
IncomeRaises(lk, m) ==
    \/ m.source # Elector
    \/ ~LookupSkipped(lk) /\ lk.stake_amount_sent = 0

Abs(x) == IF x >= 0 THEN x ELSE -x

\* The triples <<balance, stake, |nominators_reward|>> among the values of this
\* model for which the two double-precision roundings of
\* (balance / stake) * nominators_reward end just below the exact, integral
\* product: 3 / 11 * 55 is 14.999999999999998, not 15.
DoubleRoundsBelow == {<<3, 11, 55>>}

\* his_reward = int(share * nominators_reward), share = balance / stake: a
\* double-precision quotient and product, truncated toward zero
his_reward(balance, stake, nominators_reward) ==
    LET q == TruncDiv(balance * nominators_reward, stake)
    IN  IF <<balance, stake, Abs(nominators_reward)>> \in DoubleRoundsBelow
        THEN IF q > 0 THEN q - 1 ELSE q + 1
        ELSE q

\* reward = args.msg.value - stake_amount_sent_before
reward(lk, m) == m.value - lk.stake_amount_sent

\* validator_reward = int(reward * validator_share / 10000)
validator_reward(lk, m) ==
    TruncDiv(reward(lk, m) * lk.validator_share, ShareDenominator)

\* nominators_reward = reward - validator_reward
nominators_reward(lk, m) == reward(lk, m) - validator_reward(lk, m)

\* the bookings of one income message, given the result lk of its lookup
IncomeBookings(lk, m) ==
    LET keys == DictKeys(lk.nominators.dict)
        paid == SelectSeq(keys, LAMBDA k :
                    his_reward(lk.nominators.dict[k][1], lk.stake_amount_sent,
                               nominators_reward(lk, m)) # 0)
    IN  IF LookupSkipped(lk) THEN << >>
        ELSE [i \in 1..Len(paid) |->
                [lt |-> m.created_lt, utime |-> m.created_at,
                 subaccount_address |-> addr_hash_wc0_parse(paid[i]),
                 debit |-> 0,
                 credit |-> his_reward(lk.nominators.dict[paid[i]][1],
                                       lk.stake_amount_sent,
                                       nominators_reward(lk, m)),
                 type |-> "nominator_income"]]

\* the block the lookup of an income message asks for
prev_block_seqno(m) == m.block_seqno - LookbackBlocks

\* the bookings of all income messages; lookup maps a block seqno to the
\* result of the lookup at that block
AllIncomeBookings(lookup, msgs) ==
    LET inc == SelectSeq(msgs, IsIncome)
    IN  Concat([i \in 1..Len(inc) |->
                   IncomeBookings(lookup[prev_block_seqno(inc[i])], inc[i])])

RequestInWindowAnyTime(reqs, created_at) == reqs # << >>

RequestInWindowInclusive(reqs, created_at) ==
    \E i \in 1..Len(reqs) :
        reqs[i] >= created_at - WithdrawWindow /\ reqs[i] <= created_at

\* search for withdrawal request max 36 hours ago (2 rounds)
RequestInWindow(reqs, created_at) ==
    \E i \in 1..Len(reqs) :
        reqs[i] > created_at - WithdrawWindow /\ reqs[i] <= created_at

IsWithdrawalBounced(m, msgs_to) ==
    /\ m.destination[1] = 0
    /\ ~(m.value < OneTon)
    /\ m.body_empty
    /\ RequestInWindow(withdrawal_requests(msgs_to, m.destination), m.created_at)

IsWithdrawal(m, msgs_to) ==
    /\ m.destination[1] = 0
    /\ ~m.bounce
    /\ ~(m.value < OneTon)
    /\ m.body_empty
    /\ RequestInWindow(withdrawal_requests(msgs_to, m.destination), m.created_at)

WithdrawalBooking(m) ==
    [lt |-> m.created_lt, utime |-> m.created_at,
     subaccount_address |-> m.destination,
     debit |-> m.value, credit |-> 0, type |-> "nominator_withdrawal"]

WithdrawalBookings(msgs_to, msgs_from) ==
    LET w == SelectSeq(msgs_from, LAMBDA m : IsWithdrawal(m, msgs_to))
    IN  [i \in 1..Len(w) |-> WithdrawalBooking(w[i])]

\* sorted(bookings, key=lambda b: (b["utime"], b["lt"])): a stable sort
KeyLE(a, b) == a.utime < b.utime \/ (a.utime = b.utime /\ a.lt <= b.lt)

RECURSIVE InsertSorted(_, _)
InsertSorted(sorted, b) ==
    IF sorted = << >> THEN <<b>>
    ELSE LET last == sorted[Len(sorted)]
         IN  IF KeyLE(last, b) THEN Append(sorted, b)
             ELSE Append(InsertSorted(SubSeq(sorted, 1, Len(sorted) - 1), b), last)

Unsorted(bs) == bs

RECURSIVE SortBookings(_)
SortBookings(bs) ==
    IF bs = << >> THEN << >>
    ELSE InsertSorted(SortBookings(SubSeq(bs, 1, Len(bs) - 1)), bs[Len(bs)])

\* the bookings list of one run, sorted: deposits, then incomes, then
\* withdrawals are appended, and the list is sorted
Bookings(to, from, lookup) ==
    SortBookings(DepositBookings(to) \o AllIncomeBookings(lookup, to)
                 \o WithdrawalBookings(to, from))

\* an exception leaves the classification of the messages
Raises(to, lookup) ==
    LET inc == SelectSeq(to, IsIncome)
    IN  \E i \in 1..Len(inc) :
            IncomeRaises(lookup[prev_block_seqno(inc[i])], inc[i])

\* the lookups of pool p for the income messages among msgs
PoolDataBefore(p, msgs) ==
    [s \in {prev_block_seqno(msgs[i]) : i \in 1..Len(msgs)} |-> GetPoolDataAt(p, s)]

\* the bookings list of one run of pool p for messages created after from_time
RunBookings(p, from_time) ==
    LET to == msgs_to_pool(p, from_time)
    IN  Bookings(to, msgs_from_pool(p, from_time), PoolDataBefore(p, to))

RunRaises(p, from_time) ==
    LET to == msgs_to_pool(p, from_time)
    IN  Raises(to, PoolDataBefore(p, to))

(***************************************************************************)
(* The result store: the tables of contracts_db/database.py as sets of     *)
(* rows, the bookings in insertion order (booking_id is the position), and *)
(* the two autoincrement sequences.                                        *)
(***************************************************************************)
EmptyDb ==
    [accounts |-> {}, pools |-> {}, subaccounts |-> {}, nominators |-> {},
     bookings |-> << >>, account_seq |-> 0, subaccount_seq |-> 0]

\* sha256(json.dumps(record, sort_keys=True)): the fingerprint is the record's
\* canonical content, keys in sorted order
record_hash(record, account_id, subaccount_id) ==
    <<account_id, record.credit, record.debit, record.lt,
      record.subaccount_address, subaccount_id, record.type, record.utime>>

PoolRowsAnyAccount(db, p) ==
    {a \in db.accounts : \E q \in db.pools : q.account_id = a.account_id}

\* select(Account, NominatorPool).join(...).filter(Account.account == p)
PoolRows(db, p) ==
    {a \in db.accounts :
        a.account = p /\ \E q \in db.pools : q.account_id = a.account_id}

FirstRow(rows) == CHOOSE a \in rows : \A b \in rows : a.account_id <= b.account_id

UpsertPoolInsertOnly(db, p, balance, st) ==
    LET found == PoolRows(db, p)
        id == db.account_seq + 1
    IN  IF found # {} THEN db
        ELSE [db EXCEPT
                !.accounts = @ \cup {[account_id |-> id, account |-> p,
                                       balance |-> balance]},
                !.pools = @ \cup {[account_id |-> id,
                                    stake_amount_sent |-> st.stake_amount_sent,
                                    validator_amount |-> st.validator_amount,
                                    nominators_count |-> st.nominators_count]},
                !.account_seq = id]

\* "first, update the pool data because it may be empty later": the upsert of
\* Account and NominatorPool and its commit
UpsertPool(db, p, balance, st) ==
    LET found == PoolRows(db, p)
        id == IF found # {} THEN FirstRow(found).account_id ELSE db.account_seq + 1
        pool == [account_id |-> id, stake_amount_sent |-> st.stake_amount_sent,
                 validator_amount |-> st.validator_amount,
                 nominators_count |-> st.nominators_count]
        acct == [account_id |-> id, account |-> p, balance |-> balance]
    IN  [db EXCEPT
            !.accounts = {a \in @ : a.account_id # id} \cup {acct},
            !.pools = {q \in @ : q.account_id # id} \cup {pool},
            !.account_seq = IF found # {} THEN @ ELSE id]

pool_id_in_accouts_any(db, p) == FirstRow(db.accounts).account_id

\* pool_id_in_accouts = pool[0].account_id, of the row selected by the
\* pool's address
pool_id_in_accouts(db, p) == FirstRow(PoolRows(db, p)).account_id

\* The relationships of the mapped classes that delete their children with
\* the parent (cascade="all, delete-orphan").  Booking, NominatorPool and
\* Nominator name SubAccount.bookings, Account.nominator_pool and
\* SubAccount.nominator in back_populates: the mapping in which the handler's
\* classes exist is the one in which these relationships exist too.
OrmCascade ==
    {"Account.subaccounts", "Account.l_pool", "SubAccount.l_pool_asset",
     "Account.nominator_pool", "SubAccount.bookings", "SubAccount.nominator"}

\* delete_pool_with_nominators: session.delete(account) and commit.  Rows that
\* reference a deleted row through a foreign key and are not deleted with it
\* make the store reject the commit (raised), and nothing is deleted.
delete_pool_with_nominators(db, p) ==
    LET rows == {a \in db.accounts : a.account = p}
        id == FirstRow(rows).account_id
        subs == IF "Account.subaccounts" \in OrmCascade
                THEN {s.subaccount_id : s \in {x \in db.subaccounts :
                                                 x.parent_account_id = id}}
                ELSE {}
        sub_left == \E s \in db.subaccounts :
                        s.parent_account_id = id /\ s.subaccount_id \notin subs
        pool_left == "Account.nominator_pool" \notin OrmCascade
                     /\ \E q \in db.pools : q.account_id = id
        nom_left == "SubAccount.nominator" \notin OrmCascade
                    /\ \E n \in db.nominators : n.subaccount_id \in subs
        book_left == "SubAccount.bookings" \notin OrmCascade
                     /\ \E i \in 1..Len(db.bookings) :
                            db.bookings[i].subaccount_id \in subs
    IN  IF rows = {} THEN [raised |-> FALSE, db |-> db]
        ELSE IF sub_left \/ pool_left \/ nom_left \/ book_left
        THEN [raised |-> TRUE, db |-> db]
        ELSE [raised |-> FALSE,
              db |-> [db EXCEPT
                  !.accounts = {a \in @ : a.account_id # id},
                  !.pools = {q \in @ : q.account_id # id},
                  !.subaccounts = {s \in @ : s.subaccount_id \notin subs},
                  !.nominators = {n \in @ : n.subaccount_id \notin subs},
                  !.bookings = SelectSeq(@, LAMBDA b : b.subaccount_id \notin subs)]]

\* keep the first occurrence of every element
RECURSIVE Dedup(_)
Dedup(seq) ==
    IF seq = << >> THEN << >>
    ELSE LET init == Dedup(SubSeq(seq, 1, Len(seq) - 1))
             x == seq[Len(seq)]
         IN  IF \E i \in 1..Len(init) : init[i] = x THEN init ELSE Append(init, x)

IndexOf(seq, x) == CHOOSE i \in 1..Len(seq) : seq[i] = x

\* select(Booking).filter_by(booking_hash=record_hash): the session flushes
\* before a query, so the rows added earlier in this run are seen as well
BookingExistsCommittedOnly(committed, pending, h) ==
    \E i \in 1..Len(committed) : committed[i].booking_hash = h

BookingExistsNever(committed, pending, h) == FALSE

BookingExistsPendingOnly(committed, pending, h) ==
    \E i \in 1..Len(pending) : pending[i].booking_hash = h

BookingExists(committed, pending, h) ==
    \/ \E i \in 1..Len(committed) : committed[i].booking_hash = h
    \/ \E i \in 1..Len(pending) : pending[i].booking_hash = h

\* "insert bookings": rows in sorted order, a row with a known hash skipped
RECURSIVE AddBookings(_, _, _)
AddBookings(committed, pending, rows) ==
    IF rows = << >> THEN pending
    ELSE IF BookingExists(committed, pending, Head(rows).booking_hash)
         THEN AddBookings(committed, pending, Tail(rows))
         ELSE AddBookings(committed, Append(pending, Head(rows)), Tail(rows))

NominatorRowZeroed(id, active, value) ==
    [subaccount_id |-> id, balance |-> 0, pending_balance |-> 0]

\* the Nominator row of a subaccount after the run: the parsed balance and
\* pending balance for an active nominator, 0 and 0 for the others
NominatorRow(id, active, value) ==
    [subaccount_id |-> id,
     balance |-> IF active THEN value[1] ELSE 0,
     pending_balance |-> IF active THEN value[2] ELSE 0]

InactiveRowKept(old) == old

\* "make old active nominators inactive": the row stays, with both amounts 0
InactiveRow(old) == [old EXCEPT !.balance = 0, !.pending_balance = 0]

\* The writes of one run after the classification, and their commit: the
\* subaccounts of the active nominators, the inactive ones zeroed, the
\* subaccounts the bookings need, and the bookings.
PersistRun(db, id, nominators, bookings) ==
    LET existing == {s \in db.subaccounts :
                        /\ s.parent_account_id = id
                        /\ \E n \in db.nominators : n.subaccount_id = s.subaccount_id}
        known == {s.owner : s \in existing}
        dict == IF nominators.present THEN nominators.dict ELSE << >>
        keys == DictKeys(dict)
        active == [i \in 1..Len(keys) |-> addr_hash_wc0_parse(keys[i])]
        booked == [i \in 1..Len(bookings) |-> bookings[i].subaccount_address]
        created == Dedup(SelectSeq(active \o booked, LAMBDA o : o \notin known))
        sub_id(o) == IF o \in known
                     THEN (CHOOSE s \in existing : s.owner = o).subaccount_id
                     ELSE db.subaccount_seq + IndexOf(created, o)
        owners == known \cup {created[i] : i \in 1..Len(created)}
        is_active(o) == \E i \in 1..Len(active) : active[i] = o
        nominator(o) ==
            IF o \in known /\ ~is_active(o)
            THEN InactiveRow(CHOOSE n \in db.nominators :
                                 n.subaccount_id = sub_id(o))
            ELSE NominatorRow(sub_id(o), is_active(o),
                              IF is_active(o) THEN dict[o[2]] ELSE <<0, 0>>)
        touched == {sub_id(o) : o \in owners}
        rows == [i \in 1..Len(bookings) |->
                    [booking_hash |-> record_hash(bookings[i], id,
                                          sub_id(bookings[i].subaccount_address)),
                     subaccount_id |-> sub_id(bookings[i].subaccount_address),
                     booking_lt |-> bookings[i].lt,
                     booking_utime |-> bookings[i].utime,
                     booking_type |-> bookings[i].type,
                     credit |-> bookings[i].credit,
                     debit |-> bookings[i].debit]]
    IN  [db EXCEPT
            !.subaccounts = @ \cup
                {[subaccount_id |-> sub_id(created[i]), owner |-> created[i],
                  parent_account_id |-> id] : i \in 1..Len(created)},
            !.nominators = {n \in @ : n.subaccount_id \notin touched}
                           \cup {nominator(o) : o \in owners},
            !.bookings = @ \o AddBookings(@, << >>, rows),
            !.subaccount_seq = @ + Len(created)]

(***************************************************************************)
(* The state of the indexer and of what it reads and writes.               *)
(***************************************************************************)
VARIABLES
    persisted,      \* the value of key index_second in the sqlite table index_data
    index_second,   \* localdb.index_second, the value held by the process
    latest,         \* LatestAccountState.timestamp per account, 0: no row
    pc,             \* the driver: "idle" (asleep between cycles), "running", or
                    \* "stopped" (the process has ended)
    tasks,          \* argss of the current (or last) cycle with each task's progress
    utime,          \* HandlerArgs.utime of the tasks of the cycle
    result_db,      \* the result store
    boots,          \* how many times the process was started again
    ckpt_error,     \* the checkpoint read or write that raised, until a write succeeds
    last_run,       \* per pool: <<utime, state timestamp>> of the last committed run
                    \* whose rows the store holds
    processed,      \* per pool: the archive timestamp of its last task that ended well
    first_from      \* per pool: the smallest utime of the committed runs whose rows
                    \* the store holds

\* One handler run taken alone, on given query results (the variables of the
\* specification EngineSpec; the driver leaves them as they are).
VARIABLES
    to_pool,        \* msgs_to_pool: the rows of the inbound message query
    from_pool,      \* msgs_from_pool: the rows of the outbound message query
    pool_data,      \* per block seqno: what the lookup at that block gives
    run_pc,         \* "off", "input" (before the run), "done", "raised",
                    \* "returned" (the run has ended at a dictionary check)
    run_bookings,   \* the sorted bookings list of the run
    run_requests,   \* withdrawal_requests at the end of the run, per source
    run_db,         \* the result store of the run
    run_nominators, \* nominators_cell of the pool state of the run, parsed
    run_withdraw_requests,  \* withdraw_requests_cell of that state, parsed
    processing_from_time,   \* the as-of time of the run: the checkpoint C
    incomes_to_process      \* the income messages of the run, each with the state
                            \* of its process_recover_stake call and the place of
                            \* its end among the ends of the calls

\* parse_pool taken alone: one storage cell built from a tuple of fields
VARIABLES
    pool_fields,    \* the tuple of fields the storage cell is built from
    storage_rest,   \* the bits of the storage that follow withdraw_requests
    data,           \* the cell: [bits, refs], without bits before it is built
    pool_parsed     \* what parse_pool(data) has returned, << >> before the call

\* The dedust liquidity pool handler taken alone, over cycles and restarts
VARIABLES
    lpools,         \* the committed LPoolWithAssets rows of the result store
    lp_tasks,       \* per pool address: the handler run of the current cycle
    lp_pc,          \* "off", "idle" (between cycles) or "running"
    lp_cycles,      \* how many cycles have started
    lp_boots        \* how many times the process was started again

codec_vars == <<pool_fields, storage_rest, data, pool_parsed>>

dedust_vars == <<lpools, lp_tasks, lp_pc, lp_cycles, lp_boots>>

driver_vars == <<persisted, index_second, latest, pc, tasks, utime, result_db, boots,
                 ckpt_error, last_run, processed, first_from>>

run_vars == <<to_pool, from_pool, pool_data, run_pc, run_bookings, run_requests,
              run_db, run_nominators, run_withdraw_requests, processing_from_time,
              incomes_to_process>>

engine_vars == <<run_vars, codec_vars, dedust_vars>>

vars == <<driver_vars, engine_vars>>

\* the code hash of the nominator pool contract (nominator_pool_handler[0])
NominatorPoolCodeHash == "mj7BS8CY9rRAZMMFIiyuooAPF92oXuaoGYpwle3hDc8="

\* a code hash no handler is registered for
OtherCodeHash == "other"

\* an account of the archive with that code hash
Foreign == <<-1, 103>>

\* LatestAccountState.code_hash
code_hash(a) == IF a = Foreign THEN OtherCodeHash ELSE NominatorPoolCodeHash

\* the registry: the code hashes a handler is registered for
handlers == {NominatorPoolCodeHash}

\* what get_account_state and its retry can give: the state, the state after
\* one reconnect, a reconnect that raises, no answer twice, an account without
\* state_init data, and data parse_pool cannot read
RpcOutcomes == {"ok", "retry_ok", "reconnect_fail", "fail", "nodata", "malformed"}

\* no run of the pool has its rows in the result store
NoRun == <<-1, 0>>

NoFrom == -1

Min(x, y) == IF x <= y THEN x ELSE y

DriverInit ==
    /\ persisted = 0
    /\ index_second = 0
    /\ latest = [a \in Pools |-> 0]
    /\ pc = "idle"
    /\ tasks = << >>
    /\ utime = 0
    /\ result_db = EmptyDb
    /\ boots = 0
    /\ ckpt_error = "none"
    /\ last_run = [a \in Pools |-> NoRun]
    /\ processed = [a \in Pools |-> 0]
    /\ first_from = [a \in Pools |-> NoFrom]

\* None where a reference may be absent
NoCell == "none"

EmptyCell == [bits |-> << >>, refs |-> << >>]

\* no cell is parsed alone
CodecOff ==
    /\ pool_fields = << >>
    /\ storage_rest = << >>
    /\ data = EmptyCell
    /\ pool_parsed = << >>

\* no handler run is taken alone
RunOff ==
    /\ to_pool = << >>
    /\ from_pool = << >>
    /\ pool_data = << >>
    /\ run_pc = "off"
    /\ run_bookings = << >>
    /\ run_requests = << >>
    /\ run_db = EmptyDb
    /\ run_nominators = NoDict
    /\ run_withdraw_requests = NoDict
    /\ processing_from_time = 0
    /\ incomes_to_process = << >>

\* no dedust handler is taken alone
DedustOff ==
    /\ lpools = << >>
    /\ lp_tasks = << >>
    /\ lp_pc = "off"
    /\ lp_cycles = 0
    /\ lp_boots = 0

EngineOff == RunOff /\ CodecOff /\ DedustOff

Init == DriverInit /\ EngineOff

\* the archive records a newer state of an account
ArchiveUpdate(a, t) ==
    /\ latest[a] < t
    /\ latest' = [latest EXCEPT ![a] = t]
    /\ UNCHANGED <<persisted, index_second, pc, tasks, utime, result_db, boots,
                   ckpt_error, last_run, first_from, processed>>
    /\ UNCHANGED engine_vars

\* LocalDB.__init__ at the start of a process: index_second = self.read()
LocalDBInit(stored) == stored

\* The process dies at any point and is started again.  The read of
\* LocalDB.__init__ runs when core.localdb is imported, outside run(): if it
\* raises, the process ends before its first cycle.
Restart ==
    /\ boots < MaxBoots
    /\ boots' = boots + 1
    /\ \E read_ok \in BOOLEAN :
          IF read_ok
          THEN /\ index_second' = LocalDBInit(persisted)
               /\ pc' = "idle"
               /\ ckpt_error' = "none"
          ELSE /\ index_second' = 0
               /\ pc' = "stopped"
               /\ ckpt_error' = "init"
    /\ tasks' = << >>
    /\ utime' = 0
    /\ UNCHANGED <<persisted, latest, result_db, last_run, first_from, processed>>
    /\ UNCHANGED engine_vars

\* @logger.catch() on run(): an exception ends the cycle and is logged, main()
\* sleeps and calls run() again
AfterRunErrorFatal == "stopped"

AfterRunError == "idle"

\* localdb.read() at the start of run() raises
ReadFails ==
    /\ pc = "idle"
    /\ ckpt_error' = "read"
    /\ pc' = AfterRunError
    /\ UNCHANGED <<persisted, index_second, latest, tasks, utime, result_db,
                   boots, last_run, first_from, processed>>
    /\ UNCHANGED engine_vars

CandidatesOfAnyCode(C) == {a \in DOMAIN latest : latest[a] > C}

\* the rows of the archive query: registered code hash, timestamp > C
Candidates(C) ==
    {a \in DOMAIN latest : code_hash(a) \in handlers /\ latest[a] > C}

\* the query without its timestamp filter and its order_by: every row of a
\* registered code hash, in any order
QueryUnfiltered(C) ==
    {q \in [1..Cardinality(Candidates(0)) -> Candidates(0)] :
        \A i, j \in DOMAIN q : i < j => q[i] # q[j]}

\* ... .order_by(LatestAccountState.timestamp): every order of the rows that
\* is ascending in the timestamp
QueryOrders(C) ==
    {q \in [1..Cardinality(Candidates(C)) -> Candidates(C)] :
        /\ \A i, j \in DOMAIN q : i < j => q[i] # q[j] /\ latest[q[i]] <= latest[q[j]]}

\* the task with the account's own timestamp as its as-of time
NewTaskOwnTime(a) ==
    [account |-> a, timestamp |-> latest[a], balance |-> Balance(a, latest[a]),
     utime |-> latest[a] - 1,
     st |-> "pending", outcome |-> "none", state_ts |-> 0, again |-> FALSE]

\* one element of argss: utime=localdb.index_second
NewTask(a) ==
    [account |-> a, timestamp |-> latest[a], balance |-> Balance(a, latest[a]),
     utime |-> index_second,
     st |-> "pending", outcome |-> "none", state_ts |-> 0, again |-> FALSE]

\* run() up to the dispatch: the query and the construction of argss
StartCycle ==
    /\ pc = "idle"
    /\ \E q \in QueryOrders(index_second) :
           tasks' = [i \in DOMAIN q |-> NewTask(q[i])]
    /\ utime' = index_second
    /\ pc' = "running"
    /\ UNCHANGED <<persisted, index_second, latest, result_db, boots, ckpt_error,
                   last_run, first_from, processed>>
    /\ UNCHANGED engine_vars

InFlight == {i \in DOMAIN tasks : tasks[i].st \in {"fetch", "recon"}}

\* the outcomes of a task that are an exception logged by handler()
Failed(outcome) == outcome \in {"failed", "cleanup_failed"}

call_handler_unchecked(a) == "fetch"

\* call_handler: dispatch by code hash, "Handler not found" otherwise
call_handler(a) == IF code_hash(a) \in handlers THEN "fetch" ELSE "done"

TaskStartUnlimited(i) ==
    /\ pc = "running"
    /\ tasks[i].st = "pending"
    /\ \A j \in 1..(i - 1) : tasks[j].st # "pending"
    /\ tasks' = [tasks EXCEPT
                    ![i].st = call_handler(tasks[i].account),
                    ![i].outcome = IF call_handler(tasks[i].account) = "done"
                                   THEN "unhandled" ELSE "none"]
    /\ UNCHANGED <<persisted, index_second, latest, pc, utime, result_db, boots,
                   ckpt_error, last_run, first_from, processed>>
    /\ UNCHANGED engine_vars

\* amap starts the next task of argss while fewer than max_at_once run
TaskStart(i) ==
    /\ pc = "running"
    /\ tasks[i].st = "pending"
    /\ \A j \in 1..(i - 1) : tasks[j].st # "pending"
    /\ Cardinality(InFlight) < max_at_once
    /\ tasks' = [tasks EXCEPT
                    ![i].st = call_handler(tasks[i].account),
                    ![i].outcome = IF call_handler(tasks[i].account) = "done"
                                   THEN "unhandled" ELSE "none"]
    /\ UNCHANGED <<persisted, index_second, latest, pc, utime, result_db, boots,
                   ckpt_error, last_run, first_from, processed>>
    /\ UNCHANGED engine_vars

\* handler(): "except Exception as e: logger.error(...)"
HandlerReraises(outcome) == IF Failed(outcome) THEN "raised" ELSE outcome

HandlerBoundary(outcome) == outcome

\* The end of task i with this outcome of handle_nominator_pool.  An
\* exception that left the handler would end amap and with it run(): the
\* other tasks are cancelled and no checkpoint is written.
EndTask(i, outcome) ==
    LET seen == HandlerBoundary(outcome)
    IN  IF seen = "raised"
        THEN /\ tasks' = << >>
             /\ pc' = AfterRunError
             /\ utime' = 0
             /\ processed' = processed
        ELSE /\ tasks' = [tasks EXCEPT ![i].st = "done", ![i].outcome = seen]
             /\ pc' = pc
             /\ utime' = utime
             /\ processed' = IF seen = "ok"
                             THEN [processed EXCEPT ![tasks[i].account] =
                                                        tasks[i].timestamp]
                             ELSE processed

\* handle_nominator_pool up to the commit of the pool summary
Summary(i) ==
    /\ pc = "running"
    /\ tasks[i].st = "fetch"
    /\ \E rpc \in RpcOutcomes, dberr \in BOOLEAN :
        LET a == tasks[i].account
            del == delete_pool_with_nominators(result_db, a)
        IN  CASE rpc \in {"ok", "retry_ok"} /\ ~dberr ->
                   /\ result_db' = UpsertPool(result_db, a, tasks[i].balance,
                                              ChainState(a, latest[a]))
                   /\ tasks' = [tasks EXCEPT ![i].st = "recon",
                                             ![i].state_ts = latest[a]]
                   /\ UNCHANGED <<pc, utime, processed, last_run, first_from>>
              [] rpc = "fail" /\ (dberr \/ del.raised) ->
                   /\ EndTask(i, "cleanup_failed")
                   /\ UNCHANGED <<result_db, last_run, first_from>>
              [] rpc = "fail" /\ ~(dberr \/ del.raised) ->
                   /\ result_db' = del.db
                   /\ last_run' = [last_run EXCEPT ![a] = NoRun]
                   /\ first_from' = [first_from EXCEPT ![a] = NoFrom]
                   /\ EndTask(i, "cleaned")
              [] OTHER ->
                   /\ EndTask(i, "failed")
                   /\ UNCHANGED <<result_db, last_run, first_from>>
    /\ UNCHANGED <<persisted, index_second, latest, boots, ckpt_error>>
    /\ UNCHANGED engine_vars

\* What the session of a run holds, flushed or added and not committed, when
\* an exception ends the run: nothing yet, the subaccounts and balances of
\* the dictionary, or every row of the run.
PendingWork(db, id, nominators, bookings) ==
    {db, PersistRun(db, id, nominators, << >>), PersistRun(db, id, nominators, bookings)}

SessionCloseKeeps(committed, pending) == pending

\* "async with ... args.result_db() as result_conn": the session is closed
\* when the block is left, and what it has not committed is rolled back
SessionClose(committed, pending) == committed

empty_dict_accepted(c) == FALSE

\* "if not nominators_dict", "if not withdraw_requests_dict": the cell is
\* there and HashMap.parse gives no entry
empty_dict(c) == c.present /\ DOMAIN c.dict = {}

\* handle_nominator_pool from the dictionary checks to the final commit
Reconstruct(i) ==
    /\ pc = "running"
    /\ tasks[i].st = "recon"
    /\ \E dberr \in BOOLEAN :
        LET a == tasks[i].account
            st == ChainState(a, tasks[i].state_ts)
            from_time == tasks[i].utime
            run == <<from_time, tasks[i].state_ts>>
        IN  IF empty_dict(st.nominators) \/ empty_dict(st.withdraw_requests)
            THEN /\ EndTask(i, "skipped")
                 /\ UNCHANGED <<result_db, last_run, first_from>>
            ELSE IF dberr \/ RunRaises(a, from_time)
            THEN /\ EndTask(i, "failed")
                 /\ \E pending \in
                        IF RunRaises(a, from_time) THEN {result_db}
                        ELSE PendingWork(result_db, pool_id_in_accouts(result_db, a),
                                         st.nominators, RunBookings(a, from_time)) :
                        result_db' = SessionClose(result_db, pending)
                 /\ UNCHANGED <<last_run, first_from>>
            ELSE /\ result_db' = PersistRun(result_db, pool_id_in_accouts(result_db, a),
                                            st.nominators, RunBookings(a, from_time))
                 /\ last_run' = [last_run EXCEPT ![a] = run]
                 /\ first_from' = [first_from EXCEPT ![a] =
                                       IF @ = NoFrom THEN from_time
                                       ELSE Min(@, from_time)]
                 /\ tasks' = [tasks EXCEPT ![i].st = "done", ![i].outcome = "ok",
                                           ![i].again = (last_run[a] = run)]
                 /\ processed' = [processed EXCEPT ![a] = tasks[i].timestamp]
                 /\ UNCHANGED <<pc, utime>>
    /\ UNCHANGED <<persisted, index_second, latest, boots, ckpt_error>>
    /\ UNCHANGED engine_vars

\* "async for _ in results": the loop ends when every task has ended
BatchJoinedAfterFirst(ts) == ts = << >> \/ \E i \in DOMAIN ts : ts[i].st = "done"

BatchJoined(ts) == \A i \in DOMAIN ts : ts[i].st = "done"

FirstTimestamp(ts) == ts[1].timestamp

\* last_timestamp = all_accounts[-1][4]
last_timestamp(ts) == ts[Len(ts)].timestamp

\* the end of run(): the checkpoint is set and written if the batch was not
\* empty; the write may raise
FinishCycle ==
    /\ pc = "running"
    /\ BatchJoined(tasks)
    /\ \E write_ok \in BOOLEAN :
        IF tasks # << >>
        THEN /\ index_second' = last_timestamp(tasks)
             /\ persisted' = IF write_ok THEN index_second' ELSE persisted
             /\ ckpt_error' = IF write_ok THEN "none" ELSE "write"
             /\ pc' = IF write_ok THEN "idle" ELSE AfterRunError
        ELSE /\ write_ok
             /\ pc' = "idle"
             /\ UNCHANGED <<index_second, persisted, ckpt_error>>
    /\ tasks' = << >>
    /\ utime' = 0
    /\ UNCHANGED <<latest, result_db, boots, last_run, first_from, processed>>
    /\ UNCHANGED engine_vars

Next ==
    \/ \E a \in Pools, t \in 1..MaxTime : ArchiveUpdate(a, t)
    \/ Restart
    \/ ReadFails
    \/ StartCycle
    \/ \E i \in DOMAIN tasks : TaskStart(i)
    \/ \E i \in DOMAIN tasks : Summary(i)
    \/ \E i \in DOMAIN tasks : Reconstruct(i)
    \/ FinishCycle

Spec == Init /\ [][Next]_vars

(***************************************************************************)
(* The dispatch of one batch of any size: amap over argss, each task       *)
(* reduced to its start (call_handler) and its end at the boundary of      *)
(* handler().                                                              *)
(***************************************************************************)
\* the k-th row of the archive query; the third has the foreign code hash
BatchAccount(k) == <<-1, 100 + k>>

BatchInit ==
    \E n \in 0..MaxBatch :
        LET rows == {BatchAccount(k) : k \in 1..n}
        IN  /\ persisted = 0
            /\ index_second = 0
            /\ latest = [a \in rows |-> 1]
            /\ pc = "running"
            /\ tasks = [k \in 1..n |-> NewTask(BatchAccount(k))]
            /\ utime = 0
            /\ result_db = EmptyDb
            /\ boots = 0
            /\ ckpt_error = "none"
            /\ last_run = [a \in rows |-> NoRun]
            /\ processed = [a \in rows |-> 0]
            /\ first_from = [a \in rows |-> NoFrom]
            /\ EngineOff

\* the handler of task i returns, or raises into handler()
TaskEnds(i) ==
    /\ pc = "running"
    /\ tasks[i].st = "fetch"
    /\ \E outcome \in {"ok", "failed"} : EndTask(i, outcome)
    /\ UNCHANGED <<persisted, index_second, latest, result_db, boots, ckpt_error,
                   last_run, first_from>>
    /\ UNCHANGED engine_vars

BatchNext ==
    \/ \E i \in DOMAIN tasks : TaskStart(i)
    \/ \E i \in DOMAIN tasks : TaskEnds(i)

BatchSpec == BatchInit /\ [][BatchNext]_vars

(***************************************************************************)
(* The driver loop alone: main() calls run() again and again; each task of *)
(* a cycle is reduced to its start and its end, as in the batch above.     *)
(***************************************************************************)
LoopNext ==
    \/ \E a \in Pools, t \in 1..MaxTime : ArchiveUpdate(a, t)
    \/ Restart
    \/ ReadFails
    \/ StartCycle
    \/ \E i \in DOMAIN tasks : TaskStart(i)
    \/ \E i \in DOMAIN tasks : TaskEnds(i)
    \/ FinishCycle

\* The event loop runs every coroutine that can run: asyncio.sleep(PERIOD)
\* returns, amap starts the tasks it may start, and every call of a handler
\* returns or raises (the lite client calls have a timeout).  Nothing is
\* assumed about the archive, about crashes or about checkpoint errors.
Fairness ==
    /\ WF_vars(StartCycle)
    /\ WF_vars(\E i \in DOMAIN tasks : TaskStart(i))
    /\ WF_vars(\E i \in DOMAIN tasks : TaskEnds(i))
    /\ WF_vars(FinishCycle)

LiveSpec == Init /\ [][LoopNext]_vars /\ Fairness

(***************************************************************************)
(* The driver loop over an archive that also holds an account of a code    *)
(* hash no handler is registered for.                                      *)
(***************************************************************************)
ArchiveAccounts == Pools \cup {Foreign}

ArchiveInit ==
    /\ persisted = 0
    /\ index_second = 0
    /\ latest = [a \in ArchiveAccounts |-> 0]
    /\ pc = "idle"
    /\ tasks = << >>
    /\ utime = 0
    /\ result_db = EmptyDb
    /\ boots = 0
    /\ ckpt_error = "none"
    /\ last_run = [a \in Pools |-> NoRun]
    /\ processed = [a \in Pools |-> 0]
    /\ first_from = [a \in Pools |-> NoFrom]
    /\ EngineOff

ArchiveNext ==
    \/ \E a \in ArchiveAccounts, t \in 1..MaxTime : ArchiveUpdate(a, t)
    \/ Restart
    \/ ReadFails
    \/ StartCycle
    \/ \E i \in DOMAIN tasks : TaskStart(i)
    \/ \E i \in DOMAIN tasks : TaskEnds(i)
    \/ FinishCycle

ArchiveSpec == ArchiveInit /\ [][ArchiveNext]_vars

(***************************************************************************)
(* One run of handle_nominator_pool on given rows of its two message       *)
(* queries and given results of its historical lookups: the classification *)
(* of the messages and the commit of its bookings to an empty store.       *)
(***************************************************************************)
\* the results a lookup can have
BlockNotFound ==
    [found |-> FALSE, call_ok |-> FALSE, stake_amount_sent |-> 0,
     validator_share |-> 0, nominators |-> NoDict]

CallError == [BlockNotFound EXCEPT !.found = TRUE]

PoolData(stake, share, nominators) ==
    [found |-> TRUE, call_ok |-> TRUE, stake_amount_sent |-> stake,
     validator_share |-> share, nominators |-> nominators]

Lookups ==
    { BlockNotFound, CallError,
      PoolData(1000, 1000, NoDict),
      PoolData(1000, 1000, Dict(<< >>)),
      PoolData(1000, 1000, Dict((1 :> <<400, 0>>) @@ (2 :> <<600, 0>>))),
      PoolData(1000, 1000, Dict((1 :> <<400, 0>>) @@ (2 :> <<500, 0>>))),
      PoolData(11, 0, Dict((1 :> <<3, 0>>) @@ (2 :> <<8, 0>>))),
      PoolData(1000, 0, Dict((1 :> <<0, 5>>) @@ (2 :> <<1000, 0>>))),
      PoolData(0, 1000, Dict((1 :> <<400, 0>>) @@ (2 :> <<600, 0>>))) }

\* the lookups of the income messages among msgs: the given ones, and no
\* block for the others
LookupsFor(msgs, given) ==
    [s \in {prev_block_seqno(msgs[i]) : i \in 1..Len(msgs)} |->
        IF s \in DOMAIN given THEN given[s] ELSE BlockNotFound]

\* descr: exit_code -1 stands for a description without compute_ph.exit_code
\* (the except branch), action_code 0 for one without an action phase
Tx(m, exit_code, action_code) ==
    [m EXCEPT !.exit_code = exit_code, !.action_code = action_code]

\* a transfer from the pool that passes every filter of the outbound loop
\* when N1 has asked for a withdrawal in the 36 hours before
Payout(at, lt) == Msg(PoolA, N1, 1500000000, at, lt, "none", "")

\* one inbound message of any kind, and a payout to its sender 1000 s later
InboundCase ==
    \E src \in {N1, Elector}, v \in {500000000, 2000000000},
       op \in {OpText, "0x00000001", RecoverStakeOk, "none"},
       letter \in {"d", "w", "x"}, e \in {-1, 0, 1}, ac \in {0, 1} :
        /\ to_pool = << Tx(Msg(src, PoolA, v, 1000, 10, op, letter), e, ac) >>
        /\ from_pool = << Msg(PoolA, src, 1500000000, 2000, 20, "none", "") >>
        /\ pool_data = LookupsFor(to_pool, << >>)

\* the withdrawal requests before one outbound message
RequestCases ==
    { << >>,
      << Msg(N1, PoolA, 100000000, 1000, 10, OpText, "w") >>,
      << Msg(N2, PoolA, 100000000, 1000, 10, OpText, "w") >>,
      << Msg(N1, PoolA, 100000000, 400, 4, OpText, "w"),
         Msg(N1, PoolA, 100000000, 1000, 10, OpText, "w") >> }

\* one outbound message of any kind, around the ends of the 36 hours after a
\* request at 1000
OutboundCase ==
    \E reqs \in RequestCases, dst \in {N1, <<-1, 1>>}, b \in BOOLEAN,
       v \in {999999999, 1000000000, 1500000000}, op \in {"none", "0x00000001"},
       at \in {999, 1000, 1001, 1000 + WithdrawWindow - 1, 1000 + WithdrawWindow,
               1000 + WithdrawWindow + 1} :
        /\ to_pool = reqs
        /\ from_pool = << [Msg(PoolA, dst, v, at, IF at < 1000 THEN 5 ELSE 20, op, "")
                              EXCEPT !.bounce = b] >>
        /\ pool_data = LookupsFor(to_pool, << >>)

\* a request, a deposit, two income messages with any results of their
\* lookups, and a payout
IncomeCase ==
    \E v \in {0, 66, 909, 1000, 1100, 1101}, lk1 \in Lookups, lk2 \in Lookups :
        /\ to_pool = << Msg(N1, PoolA, 100000000, 1400, 20, OpText, "w"),
                        Msg(N2, PoolA, 2000000000, 1500, 30, OpText, "d"),
                        Msg(Elector, PoolA, v, 1600, 40, RecoverStakeOk, ""),
                        Msg(Elector, PoolA, 1100, 1700, 50, RecoverStakeOk, "") >>
        /\ from_pool = << Payout(1800, 60) >>
        /\ pool_data = LookupsFor(to_pool, (40 :> lk1) @@ (50 :> lk2))

\* The history of PoolA in the archive: N1 deposits, asks for a withdrawal
\* and is paid 1000 s later; N2 asks and is paid 100 s later.
WindowHistory ==
    << Msg(N1, PoolA, 2000000000, 900, 9, OpText, "d"),
       Msg(N1, PoolA, 100000000, 1000, 10, OpText, "w"),
       Msg(N2, PoolA, 100000000, 1500, 15, OpText, "w"),
       Msg(PoolA, N2, 1200000000, 1600, 16, "none", ""),
       Payout(2000, 20) >>

\* the checkpoints a cycle may have started with, around the times of the
\* history
Checkpoints == {0, 899, 900, 999, 1000, 1001, 1499, 1500, 1599, 1600, 1999, 2000}

\* the two message queries of a run on that history with the checkpoint C
WindowCase ==
    \E C \in Checkpoints :
        /\ processing_from_time = C
        /\ to_pool = query_msgs_to_pool(WindowHistory, PoolA, C)
        /\ from_pool = query_msgs_from_pool(WindowHistory, PoolA, C)
        /\ pool_data = LookupsFor(to_pool, << >>)

\* the store when the run has committed the pool summary
SummaryDb == UpsertPool(EmptyDb, PoolA, Balance(PoolA, 1), ChainState(PoolA, 1))

\* the store after an earlier run of the pool, which found N1 and N2 in the
\* nominators dictionary and a deposit of N1
PriorDb ==
    PersistRun(SummaryDb, pool_id_in_accouts(SummaryDb, PoolA),
               Dict((1 :> <<5, 0>>) @@ (2 :> <<7, 1>>)),
               << DepositBooking(Msg(N1, PoolA, 1000000300, 100, 1, OpText, "d")) >>)

\* the nominators dictionaries with which a run goes on to the bookings:
\* none, or a non-empty one
NominatorCases == {NoDict, Dict(<< >>), Dict((1 :> <<9, 2>>))}

\* withdraw_requests_cell of the run: absent, without entries, with a request
WithdrawRequestCases == {NoDict, Dict(<< >>), Dict((1 :> << >>))}

EngineInit ==
    /\ DriverInit
    /\ \/ processing_from_time = 0 /\ (InboundCase \/ OutboundCase \/ IncomeCase)
       \/ WindowCase
    /\ run_pc = "input"
    /\ run_bookings = << >>
    /\ run_requests = << >>
    /\ run_db \in {SummaryDb, PriorDb}
    /\ run_nominators \in NominatorCases
    /\ run_withdraw_requests \in WithdrawRequestCases
    /\ incomes_to_process = << >>
    /\ CodecOff /\ DedustOff

\* the whole run: the dictionary checks, the three loops, the sort and the
\* commit; an exception of process_recover_stake ends it before anything is
\* added to the session
HandleRun ==
    /\ run_pc = "input"
    /\ IF empty_dict(run_nominators) \/ empty_dict(run_withdraw_requests)
       THEN /\ run_pc' = "returned"
            /\ UNCHANGED <<run_bookings, run_requests, run_db>>
       ELSE IF Raises(to_pool, pool_data)
       THEN /\ run_pc' = "raised"
            /\ UNCHANGED <<run_bookings, run_requests, run_db>>
       ELSE /\ run_pc' = "done"
            /\ run_bookings' = Bookings(to_pool, from_pool, pool_data)
            /\ run_requests' = [a \in {N1, N2, Elector} |->
                                   withdrawal_requests(to_pool, a)]
            /\ run_db' = PersistRun(run_db, pool_id_in_accouts(run_db, PoolA),
                                    run_nominators, run_bookings')
    /\ UNCHANGED <<to_pool, from_pool, pool_data, run_nominators,
                   run_withdraw_requests, processing_from_time, incomes_to_process>>
    /\ UNCHANGED <<codec_vars, dedust_vars>>
    /\ UNCHANGED driver_vars

EngineNext == HandleRun

EngineSpec == EngineInit /\ [][EngineNext]_vars

(***************************************************************************)
(* The income lookups of one run: aiometer.amap over incomes_to_process,   *)
(* every call appending to the one bookings list of the run.               *)
(***************************************************************************)
\* max_at_once of the amap over process_recover_stake
lookups_at_once == 2

\* A run after its loop over msgs_to_pool: a request, a deposit, an income
\* message the join returns twice and a second income message, with any
\* results of the two lookups; the deposits are in the list.
LookupsInit ==
    /\ DriverInit
    /\ CodecOff /\ DedustOff
    /\ \E v \in {909, 1100}, lk1 \in Lookups, lk2 \in Lookups :
          /\ to_pool = << Msg(N1, PoolA, 100000000, 1400, 20, OpText, "w"),
                          Msg(N2, PoolA, 2000000000, 1500, 30, OpText, "d"),
                          Msg(Elector, PoolA, v, 1600, 40, RecoverStakeOk, ""),
                          Msg(Elector, PoolA, v, 1600, 40, RecoverStakeOk, ""),
                          Msg(Elector, PoolA, 1100, 1700, 50, RecoverStakeOk, "") >>
          /\ pool_data = LookupsFor(to_pool, (40 :> lk1) @@ (50 :> lk2))
    /\ from_pool = << Payout(1800, 60) >>
    /\ run_pc = "lookups"
    /\ run_bookings = DepositBookings(to_pool)
    /\ run_requests = << >>
    /\ run_db \in {SummaryDb, PriorDb}
    /\ run_nominators = Dict((1 :> <<9, 2>>))
    /\ run_withdraw_requests = NoDict
    /\ processing_from_time = 0
    /\ incomes_to_process =
          LET inc == SelectSeq(to_pool, IsIncome)
          IN  [k \in 1..Len(inc) |-> [msg |-> inc[k], st |-> "waiting", ended |-> 0]]

LookupsRunning == {k \in DOMAIN incomes_to_process : incomes_to_process[k].st = "running"}

LookupsEnded == {k \in DOMAIN incomes_to_process : incomes_to_process[k].st = "ended"}

\* amap starts the call for the next message while fewer than max_at_once run
LookupStart(k) ==
    /\ run_pc = "lookups"
    /\ incomes_to_process[k].st = "waiting"
    /\ \A j \in 1..(k - 1) : incomes_to_process[j].st # "waiting"
    /\ Cardinality(LookupsRunning) < lookups_at_once
    /\ incomes_to_process' = [incomes_to_process EXCEPT ![k].st = "running"]
    /\ UNCHANGED <<to_pool, from_pool, pool_data, run_pc, run_bookings, run_requests,
                   run_db, run_nominators, run_withdraw_requests, processing_from_time>>
    /\ UNCHANGED <<codec_vars, dedust_vars>>
    /\ UNCHANGED driver_vars

\* a call of process_recover_stake ends: it returns, with its bookings
\* appended to the list, or it raises, which ends the amap and the run
LookupEnd(k) ==
    /\ run_pc = "lookups"
    /\ incomes_to_process[k].st = "running"
    /\ LET m == incomes_to_process[k].msg
           lk == pool_data[prev_block_seqno(m)]
       IN  /\ incomes_to_process' =
                 [incomes_to_process EXCEPT ![k].st = "ended",
                                            ![k].ended = Cardinality(LookupsEnded) + 1]
           /\ IF IncomeRaises(lk, m)
              THEN /\ run_pc' = "raised"
                   /\ UNCHANGED run_bookings
              ELSE /\ run_bookings' = run_bookings \o IncomeBookings(lk, m)
                   /\ UNCHANGED run_pc
    /\ UNCHANGED <<to_pool, from_pool, pool_data, run_requests, run_db,
                   run_nominators, run_withdraw_requests, processing_from_time>>
    /\ UNCHANGED <<codec_vars, dedust_vars>>
    /\ UNCHANGED driver_vars

\* the rest of the run when every call has returned: the loop over
\* msgs_from_pool, the sort and the persist
LookupsJoined ==
    /\ run_pc = "lookups"
    /\ \A k \in DOMAIN incomes_to_process : incomes_to_process[k].st = "ended"
    /\ run_pc' = "done"
    /\ run_bookings' = SortBookings(run_bookings \o WithdrawalBookings(to_pool, from_pool))
    /\ run_requests' = [a \in {N1, N2, Elector} |-> withdrawal_requests(to_pool, a)]
    /\ run_db' = PersistRun(run_db, pool_id_in_accouts(run_db, PoolA),
                            run_nominators, run_bookings')
    /\ UNCHANGED <<to_pool, from_pool, pool_data, run_nominators,
                   run_withdraw_requests, processing_from_time, incomes_to_process>>
    /\ UNCHANGED <<codec_vars, dedust_vars>>
    /\ UNCHANGED driver_vars

LookupsNext ==
    \/ \E k \in DOMAIN incomes_to_process : LookupStart(k)
    \/ \E k \in DOMAIN incomes_to_process : LookupEnd(k)
    \/ LookupsJoined

LookupsSpec == LookupsInit /\ [][LookupsNext]_vars

(***************************************************************************)
(* parse_pool on a storage cell.  A cell is a sequence of bits and a       *)
(* sequence of references; a slice reads both from the front.              *)
(***************************************************************************)
\* Builder.store_uint(v, n): n bits, the most significant first
RECURSIVE store_uint(_, _)
store_uint(v, n) == IF n = 0 THEN << >> ELSE Append(store_uint(v \div 2, n - 1), v % 2)

\* the number a sequence of bits stands for
RECURSIVE UintOf(_)
UintOf(bits) ==
    IF bits = << >> THEN 0
    ELSE 2 * UintOf(SubSeq(bits, 1, Len(bits) - 1)) + bits[Len(bits)]

\* Slice.load_uint(n): the value and the slice that is left
load_uint(ds, n) ==
    [value |-> UintOf(SubSeq(ds.bits, 1, n)),
     ds |-> [ds EXCEPT !.bits = SubSeq(@, n + 1, Len(@))]]

\* the bytes a number needs, 0 for 0
RECURSIVE ByteLength(_)
ByteLength(v) == IF v = 0 THEN 0 ELSE 1 + ByteLength(v \div 256)

\* Coins (VarUInteger 16): the byte length in 4 bits, then the bytes
store_coins(v) == store_uint(ByteLength(v), 4) \o store_uint(v, 8 * ByteLength(v))

\* Slice.load_coins()
load_coins(ds) ==
    LET length == load_uint(ds, 4)
    IN  IF length.value = 0 THEN [value |-> 0, ds |-> length.ds]
        ELSE load_uint(length.ds, 8 * length.value)

\* Slice.load_ref()
load_ref(ds) == [value |-> Head(ds.refs), ds |-> [ds EXCEPT !.refs = Tail(@)]]

\* a Maybe ^Cell: one bit, and the reference if the bit is 1
store_maybe_ref(ref) == IF ref = NoCell THEN <<0>> ELSE <<1>>

\* Slice.load_maybe_ref(): None if the bit is 0
load_maybe_ref(ds) ==
    LET bit == load_uint(ds, 1)
    IN  IF bit.value = 0 THEN [value |-> NoCell, ds |-> bit.ds]
        ELSE load_ref(bit.ds)

\* pool_data#_ state:uint8 nominators_count:uint16 stake_amount_sent:Coins
\* validator_amount:Coins config:^PoolConfig nominators:Nominators
\* withdraw_requests:WithdrawalRequests ... = Storage
encode_pool(f, rest) ==
    [bits |-> store_uint(f[1], 8) \o store_uint(f[2], 16) \o store_coins(f[3])
              \o store_coins(f[4]) \o store_maybe_ref(f[6])
              \o store_maybe_ref(f[7]) \o rest,
     refs |-> <<f[5]>> \o (IF f[6] = NoCell THEN << >> ELSE <<f[6]>>)
                       \o (IF f[7] = NoCell THEN << >> ELSE <<f[7]>>)]

\* parse_pool with the two amounts read in the other order
parse_pool_swapped(cell) ==
    LET state == load_uint(cell, 8)
        nominators_count == load_uint(state.ds, 16)
        validator_amount == load_coins(nominators_count.ds)
        stake_amount_sent == load_coins(validator_amount.ds)
        config == load_ref(stake_amount_sent.ds)
        nominators_cell == load_maybe_ref(config.ds)
        withdraw_requests_cell == load_maybe_ref(nominators_cell.ds)
    IN  <<state.value, nominators_count.value, stake_amount_sent.value,
          validator_amount.value, config.value, nominators_cell.value,
          withdraw_requests_cell.value>>

\* parse_pool(data)
parse_pool(cell) ==
    LET state == load_uint(cell, 8)
        nominators_count == load_uint(state.ds, 16)
        stake_amount_sent == load_coins(nominators_count.ds)
        validator_amount == load_coins(stake_amount_sent.ds)
        config == load_ref(validator_amount.ds)
        nominators_cell == load_maybe_ref(config.ds)
        withdraw_requests_cell == load_maybe_ref(nominators_cell.ds)
    IN  <<state.value, nominators_count.value, stake_amount_sent.value,
          validator_amount.value, config.value, nominators_cell.value,
          withdraw_requests_cell.value>>

\* the values of the fields the cells are built from
StateValues == {0, 2, 255}
CountValues == {0, 40, 65535}
CoinValues == {0, 255, 256, 2000000000}
RestValues == {<< >>, <<1, 0, 1, 1>>}

CodecInit ==
    /\ DriverInit
    /\ RunOff /\ DedustOff
    /\ pool_fields \in StateValues \X CountValues \X CoinValues \X CoinValues
                       \X {"config"} \X {NoCell, "nominators"}
                       \X {NoCell, "withdraw_requests"}
    /\ storage_rest \in RestValues
    /\ data = EmptyCell
    /\ pool_parsed = << >>

\* the storage cell is built from the fields
Encode ==
    /\ data = EmptyCell
    /\ data' = encode_pool(pool_fields, storage_rest)
    /\ UNCHANGED <<pool_fields, storage_rest, pool_parsed>>
    /\ UNCHANGED <<run_vars, dedust_vars>>
    /\ UNCHANGED driver_vars

\* parse_pool(res.state.state_init.data)
Parse ==
    /\ data # EmptyCell
    /\ pool_parsed = << >>
    /\ pool_parsed' = parse_pool(data)
    /\ UNCHANGED <<pool_fields, storage_rest, data>>
    /\ UNCHANGED <<run_vars, dedust_vars>>
    /\ UNCHANGED driver_vars

CodecNext == Encode \/ Parse

CodecSpec == CodecInit /\ [][CodecNext]_vars

(***************************************************************************)
(* The dedust liquidity pool handler (handlers/dedust_pool.py), one run    *)
(* per pool address and cycle, over cycles and restarts of the process.    *)
(***************************************************************************)
LPools == {<<0, 71>>, <<0, 72>>}

Jetton == <<0, 99>>

\* the asset slices get_assets returns: native$0000 or jetton$0001 with its
\* address; 2 is a type the handler does not know
NativeAsset == [type |-> 0, addr |-> ""]
JettonAsset == [type |-> 1, addr |-> Jetton]
UnknownAsset == [type |-> 2, addr |-> ""]

\* the stacks of get_assets, a stack of one entry included
AssetStacks ==
    { <<NativeAsset, JettonAsset>>, <<JettonAsset, JettonAsset>>,
      <<NativeAsset, UnknownAsset>>, <<UnknownAsset, JettonAsset>>, <<NativeAsset>> }

\* the stacks of get_reserves
ReserveStacks == { <<5, 7>> }

\* the symbol found in jetton_masters, "" when there is none or the query fails
Symbols == {"", "JET"}

\* the balance of the pool in the archive at the time of a cycle
LpBalances == {10, 20}

MaxCycles == 2

NoLpTask == [pc |-> "none", balance |-> 0, calls |-> 0, res1 |-> << >>, res2 |-> << >>,
             outcome |-> "none"]

\* the run would never find a row
existing_never(rows, a) == {}

\* select(LPoolWithAssets).filter(LPoolWithAssets.account == lpool_addr_str)
existing(rows, a) == {k \in 1..Len(rows) : rows[k].account = a}

\* parse_asset raises on this slice
asset_unknown(asset) == asset.type \notin {0, 1}

parse_asset(asset, reserve, symbol) ==
    IF asset.type = 0
    THEN [type |-> "ton", reserve |-> reserve, addr |-> "", symbol |-> "TON"]
    ELSE [type |-> "jetton", reserve |-> reserve, addr |-> asset.addr, symbol |-> symbol]

\* LPoolWithAssets(account=..., lpool_type="dedust", ...)
lpool_account(a, asset0, asset1, balance) ==
    [account |-> a, lpool_type |-> "dedust",
     asset1_address |-> asset0.addr, asset1_symbol |-> asset0.symbol,
     asset1_reserve |-> asset0.reserve,
     asset2_address |-> asset1.addr, asset2_symbol |-> asset1.symbol,
     asset2_reserve |-> asset1.reserve,
     balance |-> balance]

DedustInit ==
    /\ DriverInit
    /\ RunOff /\ CodecOff
    /\ lpools = << >>
    /\ lp_tasks = [a \in LPools |-> NoLpTask]
    /\ lp_pc = "idle"
    /\ lp_cycles = 0
    /\ lp_boots = 0

DedustUnchanged == UNCHANGED <<driver_vars, run_vars, codec_vars>>

\* a cycle starts: one task for each pool whose state is newer than the
\* checkpoint, with the balance of that state
DedustStartCycle ==
    /\ lp_pc = "idle"
    /\ lp_cycles < MaxCycles
    /\ \E batch \in (SUBSET LPools) \ {{}}, b \in LpBalances :
           lp_tasks' = [a \in LPools |->
                           IF a \in batch
                           THEN [NoLpTask EXCEPT !.pc = "start", !.balance = b]
                           ELSE NoLpTask]
    /\ lp_pc' = "running"
    /\ lp_cycles' = lp_cycles + 1
    /\ UNCHANGED <<lpools, lp_boots>>
    /\ DedustUnchanged

\* the query for the row of the address and the return when there is one
DedustExisting(a) ==
    /\ lp_pc = "running"
    /\ lp_tasks[a].pc = "start"
    /\ IF existing(lpools, a) # {}
       THEN lp_tasks' = [lp_tasks EXCEPT ![a].pc = "ended", ![a].outcome = "exists"]
       ELSE lp_tasks' = [lp_tasks EXCEPT ![a].pc = "calls"]
    /\ UNCHANGED <<lpools, lp_pc, lp_cycles, lp_boots>>
    /\ DedustUnchanged

\* run_get_method get_assets and get_reserves; either call may raise
DedustGetMethods(a) ==
    /\ lp_pc = "running"
    /\ lp_tasks[a].pc = "calls"
    /\ \/ \E n \in {1, 2} :
              lp_tasks' = [lp_tasks EXCEPT ![a].pc = "ended", ![a].calls = n,
                                           ![a].outcome = "call_failed"]
       \/ \E r1 \in AssetStacks, r2 \in ReserveStacks :
              lp_tasks' = [lp_tasks EXCEPT ![a].pc = "parse", ![a].calls = 2,
                                           ![a].res1 = r1, ![a].res2 = r2]
    /\ UNCHANGED <<lpools, lp_pc, lp_cycles, lp_boots>>
    /\ DedustUnchanged

\* the two parse_asset calls, the new row and its commit; an exception of any
\* of them is caught in handler() and the session closes
DedustAdd(a) ==
    LET t == lp_tasks[a]
    IN  /\ lp_pc = "running"
        /\ t.pc = "parse"
        /\ IF Len(t.res1) < 2 \/ asset_unknown(t.res1[1]) \/ asset_unknown(t.res1[2])
           THEN /\ lp_tasks' = [lp_tasks EXCEPT ![a].pc = "ended",
                                                ![a].outcome = "parse_failed"]
                /\ UNCHANGED lpools
           ELSE \E s0 \in Symbols, s1 \in Symbols, committed \in BOOLEAN :
                    LET asset0 == parse_asset(t.res1[1], t.res2[1], s0)
                        asset1 == parse_asset(t.res1[2], t.res2[2], s1)
                    IN  IF committed
                        THEN /\ lpools' = Append(lpools,
                                              lpool_account(a, asset0, asset1, t.balance))
                             /\ lp_tasks' = [lp_tasks EXCEPT ![a].pc = "ended",
                                                             ![a].outcome = "added"]
                        ELSE /\ lp_tasks' = [lp_tasks EXCEPT ![a].pc = "ended",
                                                             ![a].outcome = "commit_failed"]
                             /\ UNCHANGED lpools
        /\ UNCHANGED <<lp_pc, lp_cycles, lp_boots>>
        /\ DedustUnchanged

\* every task of the cycle has ended: the driver sleeps until the next cycle
DedustEndCycle ==
    /\ lp_pc = "running"
    /\ \A a \in LPools : lp_tasks[a].pc \in {"none", "ended"}
    /\ lp_pc' = "idle"
    /\ UNCHANGED <<lpools, lp_tasks, lp_cycles, lp_boots>>
    /\ DedustUnchanged

\* the process ends at any point and is started again: its tasks are gone,
\* the committed rows stay
DedustRestart ==
    /\ lp_boots < MaxBoots
    /\ lp_boots' = lp_boots + 1
    /\ lp_pc' = "idle"
    /\ lp_tasks' = [a \in LPools |-> NoLpTask]
    /\ UNCHANGED <<lpools, lp_cycles>>
    /\ DedustUnchanged

DedustNext ==
    \/ DedustStartCycle
    \/ \E a \in LPools : DedustExisting(a)
    \/ \E a \in LPools : DedustGetMethods(a)
    \/ \E a \in LPools : DedustAdd(a)
    \/ DedustEndCycle
    \/ DedustRestart

DedustSpec == DedustInit /\ [][DedustNext]_vars

(***************************************************************************)
(* Properties.                                                             *)
(***************************************************************************)
IsPrefix(s, t) == Len(s) <= Len(t) /\ \A i \in 1..Len(s) : s[i] = t[i]

MaxTimestamp(ts) ==
    CHOOSE m \in {ts[i].timestamp : i \in DOMAIN ts} :
        \A i \in DOMAIN ts : ts[i].timestamp <= m

\* the bookings of the subaccounts of pool a
BookingsOf(a) ==
    SelectSeq(result_db.bookings, LAMBDA b :
        \E s \in result_db.subaccounts, r \in PoolRows(result_db, a) :
            s.subaccount_id = b.subaccount_id /\ s.parent_account_id = r.account_id)

\* a step of the running process (not the step that starts it again)
SameProcess == boots' = boots

\* C1: across any sequence of cycles (empty ones, ones with failing handlers,
\* restarts) the persisted checkpoint index_second never decreases.
C1_CheckpointNeverDecreases == [][persisted' >= persisted]_vars

C1_Witness == persisted >= 2 /\ boots >= 1 /\ pc = "running" /\ tasks = << >>

\* C2: a run of the reconstruction over the same pool state and the same
\* messages as the pool's previous committed run inserts no Booking.
C2_SecondRunInsertsNothing ==
    [][\A i \in DOMAIN tasks :
          (/\ i \in DOMAIN tasks'
           /\ tasks[i].st = "recon"
           /\ tasks'[i].outcome = "ok"
           /\ last_run[tasks[i].account] = <<utime, tasks[i].state_ts>>)
          => result_db'.bookings = result_db.bookings]_vars

\* the deposit of 2_000_000_000 to PoolA went through two runs and is booked
\* once, with credit 1_000_000_000
C2_Witness ==
    /\ \E i \in DOMAIN tasks :
          tasks[i].again /\ tasks[i].account = PoolA /\ utime = 0
    /\ Cardinality({k \in 1..Len(result_db.bookings) :
                      /\ result_db.bookings[k].booking_type = "nominator_deposit"
                      /\ result_db.bookings[k].credit = 1000000000}) = 1

\* C3: there is at most one Booking row per booking_hash.
C3_OneBookingPerHash ==
    \A i, j \in 1..Len(result_db.bookings) :
        i # j => result_db.bookings[i].booking_hash # result_db.bookings[j].booking_hash

\* the run of PoolA from time 0 reads its deposit twice; here it has committed
\* in two cycles
C3_Witness ==
    /\ boots = 1
    /\ last_run[PoolA][1] = 0
    /\ Len(BookingsOf(PoolA)) >= 2
    /\ \E i \in DOMAIN tasks : tasks[i].again /\ tasks[i].account = PoolA

\* C4: whenever the persisted checkpoint is C, every candidate account with an
\* archive timestamp of at most C has been handled successfully for that state.
C4_CheckpointOnlyPastProcessed ==
    \A a \in Pools :
        (latest[a] > 0 /\ latest[a] <= persisted) => processed[a] = latest[a]

\* C5: the checkpoint is modified only by the driver, after every task of the
\* cycle has ended; never while a task is in flight, never by a handler.
C5_CheckpointWrittenAfterJoin ==
    [][(persisted' # persisted \/ (index_second' # index_second /\ SameProcess))
          => /\ pc = "running"
             /\ tasks # << >>
             /\ \A i \in DOMAIN tasks : tasks[i].st = "done"]_vars

C5_Witness ==
    /\ persisted > 0
    /\ pc = "running"
    /\ InFlight # {}
    /\ \E i \in DOMAIN tasks : tasks[i].st = "done"

\* C6: a cycle with a non-empty batch ends with the checkpoint equal to the
\* largest archive timestamp of the batch (persisted when the write returns);
\* a cycle with an empty batch leaves the checkpoint as it was.
C6_CheckpointIsBatchMaximum ==
    [][(pc = "running" /\ pc' # "running" /\ SameProcess /\ BatchJoined(tasks))
          => IF tasks # << >>
             THEN /\ index_second' = MaxTimestamp(tasks)
                  /\ (ckpt_error' = "none" => persisted' = MaxTimestamp(tasks))
             ELSE /\ index_second' = index_second
                  /\ persisted' = persisted]_vars

\* one cycle of the first process handled PoolA at timestamp 1 and PoolB at
\* timestamp 2 (both runs as of time 0) and wrote the checkpoint 2
C6_Witness ==
    /\ pc = "idle"
    /\ boots = 0
    /\ persisted = 2
    /\ index_second = 2
    /\ last_run[PoolA] = <<0, 1>>
    /\ last_run[PoolB] = <<0, 2>>

\* C7: whatever the outcomes of the tasks of a non-empty batch, the cycle ends
\* only at the checkpoint write, which sets the checkpoint to the last
\* timestamp of the batch.
C7_CheckpointDespiteFailures ==
    [][(pc = "running" /\ pc' # "running" /\ SameProcess /\ tasks # << >>)
          => /\ index_second' = tasks[Len(tasks)].timestamp
             /\ (persisted' = index_second' \/ ckpt_error' = "write")]_vars

\* the checkpoint has passed both pools and no task ever ended well
C7_Witness ==
    /\ persisted = 2
    /\ \A a \in Pools : latest[a] > 0 /\ processed[a] = 0

\* C8: a failure while handling one account ends that task only: until every
\* task of the batch has ended the cycle keeps running, no task is dropped and
\* the ended tasks keep their outcome; the next task can always be started.
C8_FailureDoesNotAbortBatch ==
    [][(pc = "running" /\ SameProcess /\ ~BatchJoined(tasks))
          => /\ pc' = "running"
             /\ DOMAIN tasks' = DOMAIN tasks
             /\ \A j \in DOMAIN tasks :
                   tasks[j].st = "done" => tasks'[j] = tasks[j]
             /\ \A j \in DOMAIN tasks :
                   tasks[j].st # "done" => tasks'[j].st # "pending" \/ tasks'[j] = tasks[j]]_vars

C8_Witness ==
    /\ pc = "running"
    /\ Len(tasks) = 2
    /\ Failed(tasks[1].outcome)
    /\ tasks[2].outcome = "ok"

\* C9 as claimed: after a checkpoint read or write has raised, the driver
\* starts no further cycle.
C9_NoCycleAfterCheckpointError ==
    [][ckpt_error # "none" => ~(pc = "idle" /\ pc' = "running")]_vars

\* C9 amended: a checkpoint read or write that raises inside a cycle ends that
\* cycle only; the driver is idle or running afterwards, and when idle it can
\* start the next cycle.  After a failed write the process holds the new value
\* and the store the old one.  Only the read at the start of the process is
\* fatal.
C9_CheckpointErrorEndsCycleOnly ==
    /\ ckpt_error \in {"read", "write"} =>
          /\ pc \in {"idle", "running"}
          /\ (pc = "idle" => ENABLED StartCycle)
          /\ (ckpt_error = "write" => index_second > persisted)
    /\ ckpt_error = "init" <=> pc = "stopped"

C9_Witness ==
    /\ ckpt_error = "write"
    /\ pc = "running"
    /\ InFlight # {}

\* C10: a Booking row, once in the store, stays as it is: every step leaves
\* the rows that exist in place and unchanged.
C10_BookingsAppendOnly ==
    [][IsPrefix(result_db.bookings, result_db'.bookings)]_vars

\* what a Booking row says, without the keys the store gave it
RowContent(db, b) ==
    [lt |-> b.booking_lt, utime |-> b.booking_utime,
     subaccount_address |->
         (CHOOSE x \in db.subaccounts : x.subaccount_id = b.subaccount_id).owner,
     debit |-> b.debit, credit |-> b.credit, type |-> b.booking_type]

Range(seq) == {seq[i] : i \in 1..Len(seq)}

RunDone == run_pc = "done"

\* the request times recorded for address a in the run
RequestsOf(a) == IF a \in DOMAIN run_requests THEN Range(run_requests[a]) ELSE {}

\* the filters of the outbound loop other than the search for a request
PassesOtherFilters(m) ==
    /\ m.destination[1] = 0
    /\ ~m.bounce
    /\ m.value >= 10^9
    /\ m.body_empty

\* the withdrawal booking of outbound message m is in the list of the run
BookedAsWithdrawal(m) ==
    \E i \in 1..Len(run_bookings) :
        /\ run_bookings[i].type = "nominator_withdrawal"
        /\ run_bookings[i].lt = m.created_lt
        /\ run_bookings[i].utime = m.created_at
        /\ run_bookings[i].subaccount_address = m.destination

\* C12: an outbound message that passes the other filters is booked as a
\* withdrawal exactly when its destination has a recorded request at a time
\* t_req with msg_time - 36h < t_req <= msg_time.
C12_WithdrawalIffRequestInWindow ==
    RunDone =>
        \A k \in 1..Len(from_pool) :
            LET m == from_pool[k]
            IN  PassesOtherFilters(m) =>
                    (BookedAsWithdrawal(m) <=>
                        \E t \in RequestsOf(m.destination) :
                            m.created_at - 36 * 3600 < t /\ t <= m.created_at)

\* a request at 1000 and a transfer at 1000 + 129601 that passes the other
\* filters: nothing is booked
C12_Witness ==
    /\ RunDone
    /\ Len(from_pool) = 1
    /\ PassesOtherFilters(from_pool[1])
    /\ from_pool[1].created_at = 1000 + 129601
    /\ RequestsOf(from_pool[1].destination) = {1000}
    /\ run_bookings = << >>

\* C13 as claimed: a request at 1000 and an otherwise qualifying transfer at
\* 1000 + 129600 are matched, and one withdrawal Booking is produced.
C13_WindowClosedAtStart ==
    RunDone =>
        \A k \in 1..Len(from_pool) :
            LET m == from_pool[k]
            IN  (/\ PassesOtherFilters(m)
                 /\ m.created_at = 1000 + 129600
                 /\ 1000 \in RequestsOf(m.destination))
                => BookedAsWithdrawal(m)

\* C13 amended: the window is closed at its end and open at its start.  A
\* request at the time of the transfer, or 36 hours less one second before it,
\* is matched; a transfer whose requests are all 36 hours old or older, or
\* later than the transfer, is not booked.
C13_WindowOpenAtStart ==
    RunDone =>
        \A k \in 1..Len(from_pool) :
            LET m == from_pool[k]
                reqs == RequestsOf(m.destination)
            IN  PassesOtherFilters(m) =>
                  /\ (m.created_at \in reqs \/ m.created_at - 129600 + 1 \in reqs)
                        => BookedAsWithdrawal(m)
                  /\ (\A t \in reqs : t <= m.created_at - 129600 \/ t > m.created_at)
                        => ~BookedAsWithdrawal(m)

\* the only request is exactly 36 hours older than the transfer, and nothing
\* is booked
C13_Witness ==
    /\ RunDone
    /\ Len(from_pool) = 1
    /\ PassesOtherFilters(from_pool[1])
    /\ from_pool[1].created_at = 1000 + 129600
    /\ RequestsOf(from_pool[1].destination) = {1000}
    /\ run_bookings = << >>

\* the inbound message's transaction succeeded
TxSucceeded(m) == m.exit_code = 0 /\ m.action_code = 0

\* the deposit booking of inbound message m: for its source, debit 0, credit
\* the value less 10^9
DepositOf(m) ==
    [lt |-> m.created_lt, utime |-> m.created_at, subaccount_address |-> m.source,
     debit |-> 0, credit |-> m.value - 10^9, type |-> "nominator_deposit"]

\* C14: in a run that ends without an exception, an inbound message has a
\* deposit booking exactly when its transaction succeeded, its op code is 0
\* and the next byte is 'd'; the booking is for the source, debit 0, credit
\* value - 10^9.  The messages of failed transactions give neither a deposit
\* booking nor a recorded withdrawal request.
C14_DepositIffSuccessOpZeroLetterD ==
    RunDone =>
        LET deposits == SelectSeq(run_bookings,
                                  LAMBDA b : b.type = "nominator_deposit")
            sent == SelectSeq(to_pool, LAMBDA m :
                        TxSucceeded(m) /\ m.op = OpText /\ m.letter = "d")
        IN  /\ deposits = [i \in 1..Len(sent) |-> DepositOf(sent[i])]
            /\ \A a \in DOMAIN run_requests :
                  \A t \in RequestsOf(a) :
                      \E k \in 1..Len(to_pool) :
                          /\ to_pool[k].source = a
                          /\ to_pool[k].created_at = t
                          /\ TxSucceeded(to_pool[k])

\* a deposit of 2_000_000_000 is booked with credit 1_000_000_000
C14_Witness ==
    /\ RunDone
    /\ Len(to_pool) = 1
    /\ to_pool[1].value = 2000000000
    /\ Len(run_bookings) = 1
    /\ run_bookings[1].type = "nominator_deposit"
    /\ run_bookings[1].credit = 1000000000
    /\ run_bookings[1].debit = 0

\* C15: a withdrawal is booked only for an outbound message to a basechain
\* address whose transaction did not bounce, with the empty body and a value
\* of at least 10^9, and has debit = value and credit = 0 for the destination;
\* a message that fails one of the conditions is not booked, and a value of
\* exactly 10^9 does not fail.
C15_WithdrawalCandidateConditions ==
    RunDone =>
        /\ \A i \in 1..Len(run_bookings) :
              run_bookings[i].type = "nominator_withdrawal" =>
                  \E k \in 1..Len(from_pool) :
                      LET m == from_pool[k]
                      IN  /\ m.destination[1] = 0
                          /\ ~m.bounce
                          /\ m.body_empty
                          /\ m.value >= 10^9
                          /\ run_bookings[i] =
                                [lt |-> m.created_lt, utime |-> m.created_at,
                                 subaccount_address |-> m.destination,
                                 debit |-> m.value, credit |-> 0,
                                 type |-> "nominator_withdrawal"]
        /\ \A k \in 1..Len(from_pool) :
              LET m == from_pool[k]
              IN  /\ ~PassesOtherFilters(m) => ~BookedAsWithdrawal(m)
                  /\ (/\ PassesOtherFilters(m)
                      /\ m.value = 10^9
                      /\ m.created_at \in RequestsOf(m.destination))
                     => BookedAsWithdrawal(m)

\* a transfer of exactly 10^9 is booked with debit 10^9
C15_Witness ==
    /\ RunDone
    /\ Len(from_pool) = 1
    /\ from_pool[1].value = 10^9
    /\ Len(run_bookings) = 1
    /\ run_bookings[1].type = "nominator_withdrawal"
    /\ run_bookings[1].debit = 10^9
    /\ run_bookings[1].credit = 0

\* the recover_stake_ok messages of successful transactions, in query order
IncomeEvents == SelectSeq(to_pool, LAMBDA m : TxSucceeded(m) /\ m.op = RecoverStakeOk)

\* the lookup for income event m failed: no block 5 seqnos earlier, the
\* get-method call raised, or the nominators snapshot is absent or empty
LookupFailed(m) ==
    LET lk == pool_data[m.block_seqno - 5]
    IN  \/ ~lk.found
        \/ ~lk.call_ok
        \/ ~lk.nominators.present
        \/ lk.nominators.dict = << >>

\* the income bookings of event m in the list of the run
IncomeBookingsOf(m) ==
    SelectSeq(run_bookings, LAMBDA b :
        b.type = "nominator_income" /\ b.lt = m.created_lt)

\* C16: an income event whose historical lookup fails is skipped alone: it
\* has no income booking, a run does not raise unless another event does (one
\* whose lookup gave a snapshot, or one not sent by the elector), and in a run
\* that ends the deposits, the withdrawals and the other income events are
\* booked.
C16_FailedLookupSkipsEventOnly ==
    /\ run_pc = "raised" =>
          \E k \in 1..Len(IncomeEvents) :
              ~LookupFailed(IncomeEvents[k]) \/ IncomeEvents[k].source # Elector
    /\ RunDone =>
          \A k \in 1..Len(IncomeEvents) :
              LET m == IncomeEvents[k]
              IN  IF LookupFailed(m)
                  THEN IncomeBookingsOf(m) = << >>
                  ELSE IncomeBookingsOf(m) = IncomeBookings(pool_data[m.block_seqno - 5], m)
    /\ (RunDone /\ \E k \in 1..Len(IncomeEvents) : LookupFailed(IncomeEvents[k])) =>
          /\ \A k \in 1..Len(to_pool) :
                (TxSucceeded(to_pool[k]) /\ to_pool[k].op = OpText
                    /\ to_pool[k].letter = "d")
                => DepositOf(to_pool[k]) \in Range(run_bookings)
          /\ \A k \in 1..Len(from_pool) :
                (/\ PassesOtherFilters(from_pool[k])
                 /\ \E t \in RequestsOf(from_pool[k].destination) :
                        from_pool[k].created_at - 36 * 3600 < t
                            /\ t <= from_pool[k].created_at)
                => BookedAsWithdrawal(from_pool[k])

\* the call for the first income event raised; the deposit, the two bookings
\* of the second event and the payout are booked
C16_Witness ==
    /\ RunDone
    /\ Len(IncomeEvents) = 2
    /\ pool_data[40] = CallError
    /\ ~LookupFailed(IncomeEvents[2])
    /\ Len(IncomeBookingsOf(IncomeEvents[2])) = 2
    /\ Len(run_bookings) = 4

\* C17: every Booking of type nominator_income in the result store has a
\* credit greater than 0, whatever the message value and the prior stake.
C17_IncomeCreditPositive ==
    \A i \in 1..Len(run_db.bookings) :
        run_db.bookings[i].booking_type = "nominator_income"
            => run_db.bookings[i].credit > 0

RECURSIVE SumCredits(_)
SumCredits(bs) == IF bs = << >> THEN 0 ELSE Head(bs).credit + SumCredits(Tail(bs))

\* C18: for every income event that is booked, validator_reward is
\* floor(reward * validator_share / 10000), nominators_reward is the rest, and
\* the credits of the event sum to at most nominators_reward and to no less
\* than nominators_reward minus the number of nominators.
C18_RewardSplitConservation ==
    RunDone =>
        \A k \in 1..Len(IncomeEvents) :
            LET m == IncomeEvents[k]
                lk == pool_data[m.block_seqno - 5]
                paid == SumCredits(IncomeBookingsOf(m))
            IN  ~LookupFailed(m) =>
                  /\ validator_reward(lk, m)
                        = ((m.value - lk.stake_amount_sent) * lk.validator_share) \div 10000
                  /\ nominators_reward(lk, m)
                        = (m.value - lk.stake_amount_sent) - validator_reward(lk, m)
                  /\ paid <= nominators_reward(lk, m)
                  /\ nominators_reward(lk, m) - paid
                        <= Cardinality(DOMAIN lk.nominators.dict)

\* task i commits its run in this step
Commits(i) ==
    /\ i \in DOMAIN tasks'
    /\ tasks[i].st = "recon"
    /\ tasks'[i].outcome = "ok"

\* C19: the Bookings a run inserts are inserted in ascending order of
\* (utime, lt): after the rows the store held, no row of the run comes before
\* a row of the run with a smaller key.
C19_BookingsInsertedInOrder ==
    [][\A i \in DOMAIN tasks :
          Commits(i) =>
              LET old == Len(result_db.bookings)
                  all == result_db'.bookings
              IN  /\ IsPrefix(result_db.bookings, all)
                  /\ \A j, k \in (old + 1)..Len(all) :
                        j < k =>
                            \/ all[j].booking_utime < all[k].booking_utime
                            \/ /\ all[j].booking_utime = all[k].booking_utime
                               /\ all[j].booking_lt <= all[k].booking_lt]_vars

\* the run of PoolB from time 0 finds the deposit of time 3 before the income
\* of time 2; the store holds the two income rows first
C19_Witness ==
    /\ first_from[PoolB] = 0
    /\ Len(BookingsOf(PoolB)) = 3
    /\ BookingsOf(PoolB)[1].booking_type = "nominator_income"
    /\ BookingsOf(PoolB)[2].booking_type = "nominator_income"
    /\ BookingsOf(PoolB)[3].booking_type = "nominator_deposit"
    /\ BookingsOf(PoolB)[3].booking_utime > BookingsOf(PoolB)[1].booking_utime

\* the Nominator rows of the subaccounts of pool a owned by address o
NominatorsOf(db, a, o) ==
    {n \in db.nominators :
        \E x \in db.subaccounts, r \in PoolRows(db, a) :
            /\ x.subaccount_id = n.subaccount_id
            /\ x.owner = o
            /\ x.parent_account_id = r.account_id}

\* C20: after a run that commits, every address of the nominators dictionary
\* the run parsed has one Subaccount/Nominator row of the pool, with the
\* balance and the pending balance of the dictionary.
C20_ActiveNominatorsUpserted ==
    [][\A i \in DOMAIN tasks :
          Commits(i) =>
              LET a == tasks[i].account
                  parsed == ChainState(a, tasks[i].state_ts).nominators
              IN  parsed.present =>
                    \A k \in DOMAIN parsed.dict :
                        \E n \in NominatorsOf(result_db', a, <<0, k>>) :
                            /\ NominatorsOf(result_db', a, <<0, k>>) = {n}
                            /\ n.balance = parsed.dict[k][1]
                            /\ n.pending_balance = parsed.dict[k][2]]_vars

\* PoolB was run from time 0 with no nominators in its state, which created
\* the subaccounts of its bookings with balance 0; the run for its next state
\* has set them to 436 and 654
C20_Witness ==
    /\ boots = 0
    /\ first_from[PoolB] = 0
    /\ last_run[PoolB] = <<1, 2>>
    /\ \E n \in NominatorsOf(result_db, PoolB, N1) : n.balance = 436
    /\ \E n \in NominatorsOf(result_db, PoolB, N2) : n.balance = 654

\* the subaccounts of pool a in store db
SubaccountsOf(db, a) ==
    {x \in db.subaccounts :
        \E r \in PoolRows(db, a) : x.parent_account_id = r.account_id}

\* the Bookings of subaccount x in store db, in insertion order
BookingsOfSub(db, x) ==
    SelectSeq(db.bookings, LAMBDA b : b.subaccount_id = x.subaccount_id)

\* the addresses of the nominators dictionary d
DictOwners(d) == IF d.present THEN {<<0, k>> : k \in DOMAIN d.dict} ELSE {}

\* C21: after a run that commits, every subaccount the pool had before that
\* is not in the run's nominators dictionary is still there, its Nominator
\* row has balance 0 and pending balance 0, and the Bookings it had are there
\* as they were.
C21_InactiveZeroedBookingsKept ==
    [][\A i \in DOMAIN tasks :
          Commits(i) =>
              LET a == tasks[i].account
                  parsed == ChainState(a, tasks[i].state_ts).nominators
              IN  \A x \in SubaccountsOf(result_db, a) :
                      x.owner \notin DictOwners(parsed) =>
                          /\ x \in SubaccountsOf(result_db', a)
                          /\ NominatorsOf(result_db', a, x.owner) =
                                {[subaccount_id |-> x.subaccount_id,
                                  balance |-> 0, pending_balance |-> 0]}
                          /\ IsPrefix(BookingsOfSub(result_db, x),
                                      BookingsOfSub(result_db', x))]_vars

\* PoolA was run with N1 in its dictionary (balance 5) and then with a
\* dictionary that holds N2 only (N1's subaccount is the older one): N1's row
\* is at 0 and its Bookings are there
C21_Witness ==
    /\ boots = 0
    /\ first_from[PoolA] = 0
    /\ last_run[PoolA] = <<1, 2>>
    /\ \E n \in NominatorsOf(result_db, PoolA, N1) : n.balance = 0
    /\ \E n \in NominatorsOf(result_db, PoolA, N2) : n.balance = 7
    /\ \E x, y \in SubaccountsOf(result_db, PoolA) :
          /\ x.owner = N1
          /\ y.owner = N2
          /\ x.subaccount_id < y.subaccount_id
          /\ Len(BookingsOfSub(result_db, x)) >= 1

\* the summary rows of pool a hold the balance of task t and the values of
\* the pool state the task parsed
SummaryHolds(db, t) ==
    LET st == ChainState(t.account, t.state_ts)
        rows == PoolRows(db, t.account)
    IN  /\ rows # {}
        /\ \A r \in rows :
              /\ r.balance = t.balance
              /\ \E q \in db.pools :
                    /\ q.account_id = r.account_id
                    /\ q.stake_amount_sent = st.stake_amount_sent
                    /\ q.validator_amount = st.validator_amount
                    /\ q.nominators_count = st.nominators_count

\* C22: from the moment a task has parsed the pool state, whatever happens in
\* the rest of its run (the reconstruction going on, ending, being skipped or
\* failing), the store holds the summary values of this run.
C22_SummaryCommittedFirst ==
    \A i \in DOMAIN tasks :
        tasks[i].state_ts # 0 => SummaryHolds(result_db, tasks[i])

\* the reconstruction of PoolA for its second state has failed after the
\* summary commit: the summary shows the second state (stake 7), the ledger
\* rows are those of the run for the first state
C22_Witness ==
    \E i \in DOMAIN tasks :
        /\ tasks[i].account = PoolA
        /\ tasks[i].st = "done"
        /\ tasks[i].outcome = "failed"
        /\ tasks[i].state_ts = 2
        /\ last_run[PoolA][2] = 1
        /\ \E q \in result_db.pools : q.stake_amount_sent = 7

\* task i ends in this step because get_account_state raised twice
RetryFailed(i) ==
    /\ i \in DOMAIN tasks'
    /\ tasks[i].st = "fetch"
    /\ tasks'[i].outcome \in {"cleaned", "cleanup_failed"}

\* C23: when the call for the account state fails and fails again after the
\* one reconnect, the account is skipped: no row of the result store is
\* created, changed or deleted.
C23_RetryFailureLeavesStore ==
    [][\A i \in DOMAIN tasks : RetryFailed(i) => result_db' = result_db]_vars

\* every record of the bookings list of the run is a row of its store
RunBookingsPersisted ==
    \A k \in 1..Len(run_bookings) :
        \E j \in 1..Len(run_db.bookings) :
            RowContent(run_db, run_db.bookings[j]) = run_bookings[k]

\* C24: a run for a pool state without a nominators dictionary is not an
\* error: it raises only through an income event, it persists the bookings
\* of the message history, and every subaccount of the pool ends with
\* balance 0 and pending balance 0.
C24_AbsentDictionaryZeroParticipants ==
    run_nominators = NoDict =>
        /\ run_pc = "raised" =>
              \E k \in 1..Len(IncomeEvents) :
                  ~LookupFailed(IncomeEvents[k]) \/ IncomeEvents[k].source # Elector
        /\ RunDone =>
              /\ RunBookingsPersisted
              /\ \A x \in SubaccountsOf(run_db, PoolA) :
                    NominatorsOf(run_db, PoolA, x.owner) =
                        {[subaccount_id |-> x.subaccount_id,
                          balance |-> 0, pending_balance |-> 0]}

\* the store held N1 with balance 5 and N2 with balance 7 and one Booking;
\* the run without a dictionary has added its bookings and both are at 0
C24_Witness ==
    /\ RunDone
    /\ run_nominators = NoDict
    /\ run_bookings # << >>
    /\ Len(run_db.bookings) = Len(run_bookings) + 1
    /\ {x.owner : x \in SubaccountsOf(run_db, PoolA)} = {N1, N2}
    /\ \A n \in run_db.nominators : n.balance = 0 /\ n.pending_balance = 0

\* C25: at every moment of a cycle at most 9 tasks are in flight, whatever
\* the size of the batch and the order in which the tasks end.
C25_AtMostNineInFlight == Cardinality(InFlight) <= 9

\* nine tasks of a batch of more than nine are in flight, some have ended,
\* and one waits
C25_Witness ==
    /\ Cardinality(InFlight) = 9
    /\ \E i \in DOMAIN tasks : tasks[i].st = "done" /\ tasks[i].outcome = "failed"
    /\ \E i \in DOMAIN tasks : tasks[i].st = "pending"

\* C26: while a cycle runs, every task of its batch carries the same as-of
\* time, the checkpoint value the cycle started with (which the process still
\* holds), not the timestamp of the task's account.
C26_OneAsOfTimePerCycle ==
    pc = "running" =>
        \A i \in DOMAIN tasks :
            tasks[i].utime = utime /\ tasks[i].utime = index_second

\* a cycle started at checkpoint 1 after an earlier one; the task of its one
\* account (timestamp 2) has run with as-of time 1
C26_Witness ==
    /\ pc = "running"
    /\ persisted = 1
    /\ Len(tasks) = 1
    /\ tasks[1].timestamp = 2
    /\ tasks[1].utime = 1
    /\ tasks[1].outcome = "ok"

\* C27: a task whose code hash has a registered handler is handed to that
\* handler, as it is and once; a task whose code hash has none ends at once,
\* without an exception (the cycle goes on) and with the result store as it
\* was, and no handler is ever invoked for it.
C27_DispatchByCodeHash ==
    [][\A i \in DOMAIN tasks :
          /\ (i \in DOMAIN tasks' /\ tasks[i].st = "pending"
                 /\ tasks'[i].st # "pending")
             => IF code_hash(tasks[i].account) \in handlers
                THEN tasks'[i] = [tasks[i] EXCEPT !.st = "fetch"]
                ELSE /\ tasks'[i] = [tasks[i] EXCEPT !.st = "done",
                                                     !.outcome = "unhandled"]
                     /\ result_db' = result_db
                     /\ pc' = pc
          /\ (i \in DOMAIN tasks' /\ tasks[i].st # "pending")
             => tasks'[i].st # "pending"
          /\ (i \in DOMAIN tasks' /\ tasks[i].outcome = "unhandled")
             => tasks'[i] = tasks[i]]_vars

\* the account with the foreign code hash was dispatched and no handler ran
\* for it; the handlers of its neighbours are running
C27_Witness ==
    /\ pc = "running"
    /\ \E i \in DOMAIN tasks :
          /\ tasks[i].account = Foreign
          /\ tasks[i].st = "done"
          /\ tasks[i].outcome = "unhandled"
    /\ \E j \in DOMAIN tasks : tasks[j].st = "fetch"
    /\ result_db = EmptyDb

\* C28: the driver alternates between Running and Idle for as long as the
\* process lives.  A cycle ends, and it ends in Idle, also when it was empty
\* or ended with an error; an idle driver starts another cycle (unless the
\* process has died and cannot be started); a batch is built only by an idle
\* driver, so two cycles never overlap.
C28_DriverAlternates ==
    /\ [][(pc = "running" /\ pc' # "running" /\ SameProcess) => pc' = "idle"]_vars
    /\ [][(pc' = "running" /\ (pc # "running" \/ utime' # utime
                                  \/ DOMAIN tasks' # DOMAIN tasks))
            => pc = "idle"]_vars
    /\ (pc = "running") ~> (pc # "running")
    /\ (pc = "idle") ~> (pc = "running" \/ pc = "stopped")

\* a cycle is running after a cycle that ended with a checkpoint error, in
\* the same process
C28_Witness ==
    /\ boots = 0
    /\ pc = "running"
    /\ ckpt_error = "write"
    /\ tasks # << >>
    /\ \A i \in DOMAIN tasks : tasks[i].st = "pending"

\* the rows of the result store that belong to pool a, as stored
SliceOf(db, a) ==
    LET ids == {x.account_id : x \in {y \in db.accounts : y.account = a}}
        subs == {x \in db.subaccounts : x.parent_account_id \in ids}
        sids == {x.subaccount_id : x \in subs}
    IN  [accounts |-> {x \in db.accounts : x.account = a},
         pools |-> {q \in db.pools : q.account_id \in ids},
         subaccounts |-> subs,
         nominators |-> {n \in db.nominators : n.subaccount_id \in sids},
         bookings |-> SelectSeq(db.bookings, LAMBDA b : b.subaccount_id \in sids)]

\* the same rows by their addresses, without the ids the store's sequences
\* gave them
ContentOf(db, a) ==
    LET own == SliceOf(db, a)
    IN  [accounts |-> {[account |-> x.account, balance |-> x.balance] :
                          x \in own.accounts},
         pools |-> {[stake_amount_sent |-> q.stake_amount_sent,
                     validator_amount |-> q.validator_amount,
                     nominators_count |-> q.nominators_count] : q \in own.pools},
         subaccounts |-> {x.owner : x \in own.subaccounts},
         nominators |->
             {[owner |-> (CHOOSE x \in own.subaccounts :
                              x.subaccount_id = n.subaccount_id).owner,
               balance |-> n.balance,
               pending_balance |-> n.pending_balance] : n \in own.nominators},
         bookings |-> [k \in 1..Len(own.bookings) |->
                          RowContent(db, own.bookings[k])]]

LargestOf(S) == IF S = {} THEN 0 ELSE CHOOSE x \in S : \A y \in S : y <= x

\* a store that holds the rows of pool a and nothing else, its sequences
\* where these rows alone leave them
Alone(db, a) ==
    LET own == SliceOf(db, a)
    IN  [accounts |-> own.accounts, pools |-> own.pools,
         subaccounts |-> own.subaccounts, nominators |-> own.nominators,
         bookings |-> own.bookings,
         account_seq |-> LargestOf({x.account_id : x \in own.accounts}),
         subaccount_seq |-> LargestOf({x.subaccount_id : x \in own.subaccounts})]

\* task i takes a step of its handler
Acts(i) ==
    /\ i \in DOMAIN tasks
    /\ i \in DOMAIN tasks'
    /\ tasks[i].st \in {"fetch", "recon"}
    /\ tasks'[i] # tasks[i]

\* what the step task i has taken writes when the store is db
StepOn(i, db) ==
    LET a == tasks[i].account
    IN  CASE tasks[i].st = "fetch" /\ tasks'[i].st = "recon" ->
                 UpsertPool(db, a, tasks[i].balance, ChainState(a, latest[a]))
          [] tasks[i].st = "fetch" /\ tasks'[i].outcome = "cleaned" ->
                 delete_pool_with_nominators(db, a).db
          [] tasks[i].st = "recon" /\ tasks'[i].outcome = "ok" ->
                 PersistRun(db, pool_id_in_accouts(db, a),
                            ChainState(a, tasks[i].state_ts).nominators,
                            RunBookings(a, tasks[i].utime))
          [] OTHER -> db

\* C29: the tasks of a cycle are for different accounts, and a step of a
\* task leaves every row of the other pools as it is and writes to its own
\* pool what it would write were the rows of the other pools not there: the
\* contents of the result store after the cycle, row by row under the
\* addresses that key the rows, do not depend on the order in which the
\* steps of different tasks are taken.  (The ids the store's sequences hand
\* out, and the booking_hash computed over them, follow the order of the
\* inserts.)
C29_TasksWriteDisjointRows ==
    [][/\ \A i, j \in DOMAIN tasks : i # j => tasks[i].account # tasks[j].account
       /\ \A i \in DOMAIN tasks :
              Acts(i) =>
                 LET a == tasks[i].account
                 IN  /\ \A b \in Pools \ {a} :
                            SliceOf(result_db', b) = SliceOf(result_db, b)
                     /\ ContentOf(result_db', a)
                            = ContentOf(StepOn(i, Alone(result_db, a)), a)]_vars

\* in the first cycle that has a batch, two tasks are in flight, the one
\* whose pool summary was committed second has committed its run with
\* bookings, the other has not yet
C29_Witness ==
    /\ boots = 0 /\ persisted = 0 /\ ckpt_error = "none"
    /\ pc = "running"
    /\ \E i, j \in DOMAIN tasks :
          /\ i # j
          /\ tasks[i].st = "done" /\ tasks[i].outcome = "ok"
          /\ tasks[j].st = "recon"
          /\ SliceOf(result_db, tasks[i].account).bookings # << >>
          /\ SliceOf(result_db, tasks[j].account).accounts # {}
          /\ \A x \in SliceOf(result_db, tasks[i].account).accounts,
                 y \in SliceOf(result_db, tasks[j].account).accounts :
                 y.account_id < x.account_id

\* the rows the commit of a run has appended to the bookings
NewBookings(old, new) == SubSeq(new.bookings, Len(old.bookings) + 1, Len(new.bookings))

\* C30: after the commit of a run every Booking row of the store references
\* a SubAccount row that exists, under an Account row that exists; the rows
\* the run has inserted reference SubAccount rows of the run's own pool,
\* each under the address of its booking; and a SubAccount row the run has
\* created for a booking whose address is not in the nominators dictionary
\* has a Nominator row with balance 0 and pending balance 0.
C30_BookingReferencesSubaccount ==
    [][\A i \in DOMAIN tasks :
          Commits(i) =>
             LET a == tasks[i].account
                 own == SliceOf(result_db', a)
                 before == SliceOf(result_db, a)
                 added == NewBookings(result_db, result_db')
                 dict == ChainState(a, tasks[i].state_ts).nominators
             IN  /\ \A k \in 1..Len(result_db'.bookings) :
                        \E x \in result_db'.subaccounts :
                            /\ x.subaccount_id = result_db'.bookings[k].subaccount_id
                            /\ \E y \in result_db'.accounts :
                                   y.account_id = x.parent_account_id
                 /\ \A k \in 1..Len(added) :
                        /\ \E x \in own.subaccounts :
                               x.subaccount_id = added[k].subaccount_id
                        /\ RowContent(result_db', added[k])
                               \in Range(RunBookings(a, tasks[i].utime))
                 /\ \A k \in 1..Len(RunBookings(a, tasks[i].utime)) :
                        \E x \in own.subaccounts :
                            x.owner = RunBookings(a, tasks[i].utime)[k].subaccount_address
                 /\ \A x \in own.subaccounts \ before.subaccounts :
                        x.owner \notin DictOwners(dict) =>
                           /\ \E k \in 1..Len(RunBookings(a, tasks[i].utime)) :
                                  RunBookings(a, tasks[i].utime)[k].subaccount_address
                                      = x.owner
                           /\ \E n \in own.nominators :
                                  /\ n.subaccount_id = x.subaccount_id
                                  /\ n.balance = 0
                                  /\ n.pending_balance = 0]_vars

\* in the first cycle that has a batch a run was committed: a subaccount of
\* its pool has a booking and a Nominator row with 0 and 0, while another
\* pool has rows of its own in the store
C30_Witness ==
    /\ boots = 0 /\ persisted = 0 /\ ckpt_error = "none"
    /\ \E a \in Pools :
          /\ \E b \in Pools \ {a} :
                 /\ SliceOf(result_db, b).accounts # {}
                 /\ \A x \in SliceOf(result_db, a).accounts,
                        y \in SliceOf(result_db, b).accounts :
                        y.account_id < x.account_id
          /\ \E x \in SliceOf(result_db, a).subaccounts :
                 /\ BookingsOfSub(result_db, x) # << >>
                 /\ \E n \in result_db.nominators :
                        /\ n.subaccount_id = x.subaccount_id
                        /\ n.balance = 0
                        /\ n.pending_balance = 0

\* C31: parse_pool returns, in their order, exactly the fields the storage
\* cell was built from, whatever follows them in the cell.
C31_ParsePoolRoundTrip == pool_parsed # << >> => pool_parsed = pool_fields

\* a cell with amounts of no byte and of four bytes, without the nominators
\* dictionary, with the withdraw requests and with more storage behind them,
\* has been parsed
C31_Witness ==
    /\ pool_parsed # << >>
    /\ pool_fields[3] = 0
    /\ pool_fields[4] = 2000000000
    /\ pool_fields[6] = NoCell
    /\ pool_fields[7] # NoCell
    /\ storage_rest # << >>

\* C32: a run whose nominators or withdraw-requests dictionary is present
\* and has no entry ends without an exception, and leaves the bookings, the
\* subaccounts and their balances in the result store as they were,
\* whatever its messages and lookups are.
C32_EmptyDictionaryEndsRun ==
    [][(run_pc = "input"
          /\ \/ run_nominators.present /\ DOMAIN run_nominators.dict = {}
             \/ run_withdraw_requests.present
                   /\ DOMAIN run_withdraw_requests.dict = {})
        => /\ run_pc' = "returned"
           /\ run_db'.bookings = run_db.bookings
           /\ run_db'.subaccounts = run_db.subaccounts
           /\ run_db'.nominators = run_db.nominators]_vars

\* such a run has ended: the withdraw requests were present without an
\* entry, the nominators had one, the store held bookings and balances, and
\* the messages held a deposit and an income whose lookup would raise
C32_Witness ==
    /\ run_pc = "returned"
    /\ run_withdraw_requests = Dict(<< >>)
    /\ run_nominators = Dict((1 :> <<9, 2>>))
    /\ run_db = PriorDb
    /\ Len(to_pool) = 4
    /\ Raises(to_pool, pool_data)

\* C33: every task of a cycle is for an account of a registered code hash
\* whose archive timestamp is greater than the checkpoint C the cycle
\* started with, no account has two tasks, and the end of a cycle that had
\* tasks sets the checkpoint to a value greater than C (the stored value,
\* when its write succeeds, rises as well).
C33_DispatchedAboveCheckpoint ==
    [][/\ pc' = "running" =>
             /\ utime' = index_second'
             /\ \A i \in DOMAIN tasks' :
                    /\ code_hash(tasks'[i].account) \in handlers
                    /\ tasks'[i].timestamp > utime'
                    /\ \A j \in DOMAIN tasks' :
                           j # i => tasks'[j].account # tasks'[i].account
       /\ (pc = "running" /\ pc' = "idle" /\ tasks # << >> /\ SameProcess) =>
             /\ index_second' > utime
             /\ persisted' >= persisted
             /\ persisted' \in {persisted, index_second'}
             /\ ckpt_error' = "none" => persisted' > persisted]_vars

\* a cycle that started with the checkpoint 1 has a task for each pool, while
\* the archive holds a state as new as theirs of the account of the other
\* code hash
C33_Witness ==
    /\ boots = 0
    /\ pc = "running"
    /\ utime = 1
    /\ persisted = 1
    /\ Len(tasks) = 2
    /\ tasks[1].timestamp = 2 /\ tasks[2].timestamp = 2
    /\ \A i \in DOMAIN tasks : tasks[i].st = "pending"
    /\ latest[Foreign] = 2

\* C34: a run makes its subaccounts, balances and bookings visible in one
\* step, its commit: after it every booking of the run and the balance of
\* every nominator of the dictionary are in the store; a run that ends any
\* other way after the commit of the pool summary leaves the result store
\* as it was.
C34_RunCommitsAtOnce ==
    [][\A i \in DOMAIN tasks :
          (Acts(i) /\ tasks[i].st = "recon") =>
             LET a == tasks[i].account
                 dict == ChainState(a, tasks[i].state_ts).nominators
                 own == SliceOf(result_db', a)
             IN  IF tasks'[i].outcome = "ok"
                 THEN /\ \A k \in 1..Len(RunBookings(a, tasks[i].utime)) :
                            \E n \in 1..Len(own.bookings) :
                                RowContent(result_db', own.bookings[n])
                                    = RunBookings(a, tasks[i].utime)[k]
                      /\ \A o \in DictOwners(dict) :
                            \E x \in own.subaccounts, n \in own.nominators :
                                /\ x.owner = o
                                /\ n.subaccount_id = x.subaccount_id
                                /\ <<n.balance, n.pending_balance>> = dict.dict[o[2]]
                 ELSE result_db' = result_db]_vars

\* a run has ended with an exception between the two commits, with rows in
\* its session: the pool summary is in the store, no subaccount of the pool
\* is, and another task of the cycle is still in its reconstruction
C34_Witness ==
    /\ pc = "running"
    /\ \E i, j \in DOMAIN tasks :
          LET a == tasks[i].account
          IN  /\ tasks[i].st = "done"
              /\ tasks[i].outcome = "failed"
              /\ tasks[i].state_ts # 0
              /\ ~RunRaises(a, tasks[i].utime)
              /\ RunBookings(a, tasks[i].utime) # << >>
              /\ SliceOf(result_db, a).pools # {}
              /\ SliceOf(result_db, a).subaccounts = {}
              /\ tasks[j].st = "recon"

\* the withdrawal bookings of the run
WithdrawalsBooked ==
    {run_bookings[k] : k \in {n \in 1..Len(run_bookings) :
                                 run_bookings[n].type = "nominator_withdrawal"}}

\* C35: a transfer from the pool is booked as a withdrawal only if the run
\* itself has read a request of its destination, a message created after
\* the checkpoint C of the cycle, in the 36 hours before the transfer; a
\* request created at or before C is not among the messages of the run and
\* matches no transfer of it.
C35_RequestsOfThisRunOnly ==
    run_pc = "done" =>
        /\ \A k \in 1..Len(to_pool) : to_pool[k].created_at > processing_from_time
        /\ \A b \in WithdrawalsBooked :
               \E k \in 1..Len(to_pool) :
                   /\ IsWithdrawRequest(to_pool[k])
                   /\ to_pool[k].source = b.subaccount_address
                   /\ to_pool[k].created_at > processing_from_time
                   /\ to_pool[k].created_at > b.utime - WithdrawWindow
                   /\ to_pool[k].created_at <= b.utime

\* a run whose checkpoint is the time of N1's request: the transfer to N1,
\* 1000 s after the request, was read and is not booked
C35_Witness ==
    /\ run_pc = "done"
    /\ processing_from_time = 1000
    /\ \E k \in 1..Len(from_pool) :
          from_pool[k].destination = N1 /\ from_pool[k].created_at = 2000
    /\ \A b \in WithdrawalsBooked : b.subaccount_address # N1
    /\ \E b \in WithdrawalsBooked : b.subaccount_address = N2

\* C36: at most 2 income lookups of a run are in flight; whatever the order
\* in which they end, the run raises exactly when one of its lookups does,
\* and otherwise its sorted list and the rows it persists are those of the
\* lookups taken one after the other in the order of the messages.
C36_LookupOrderIrrelevant ==
    [][/\ Cardinality(LookupsRunning) <= 2
       /\ run_pc' = "raised" => Raises(to_pool, pool_data)
       /\ (run_pc = "lookups" /\ run_pc' = "done") =>
             /\ ~Raises(to_pool, pool_data)
             /\ run_bookings' = Bookings(to_pool, from_pool, pool_data)
             /\ run_db' = PersistRun(run_db, pool_id_in_accouts(run_db, PoolA),
                                     run_nominators,
                                     Bookings(to_pool, from_pool, pool_data))]_vars

\* a run is done whose third lookup ended before its second, both with
\* bookings of their own, while two lookups were in flight
C36_Witness ==
    /\ run_pc = "done"
    /\ Len(incomes_to_process) = 3
    /\ incomes_to_process[3].ended < incomes_to_process[2].ended
    /\ \A k \in {2, 3} :
          IncomeBookings(pool_data[prev_block_seqno(incomes_to_process[k].msg)],
                         incomes_to_process[k].msg) # << >>
    /\ \E k \in 1..Len(run_db.bookings) :
          run_db.bookings[k].booking_type = "nominator_income"

\* the booking b of the run is a row of the run's store
Committed(b) ==
    \E k \in 1..Len(run_db.bookings) : RowContent(run_db, run_db.bookings[k]) = b

\* C37: no income message of the elector and no result of its lookup makes
\* the run raise: every run ends without an exception, with the deposits
\* and withdrawals of its messages in the store.
C37_IncomeNeverFailsRun ==
    (\A k \in 1..Len(to_pool) : IsIncome(to_pool[k]) => to_pool[k].source = Elector)
    =>
    /\ run_pc # "raised"
    /\ run_pc = "done" =>
          /\ \A k \in 1..Len(DepositBookings(to_pool)) :
                 Committed(DepositBookings(to_pool)[k])
          /\ \A k \in 1..Len(WithdrawalBookings(to_pool, from_pool)) :
                 Committed(WithdrawalBookings(to_pool, from_pool)[k])

\* C38: while a cycle runs, the checkpoint C of its query and of its tasks
\* is the value the checkpoint store holds, and so is the value the process
\* holds.
C38_CycleUsesStoredCheckpoint ==
    pc = "running" =>
        /\ utime = persisted
        /\ index_second = persisted
        /\ \A i \in DOMAIN tasks : tasks[i].utime = persisted

\* C39: every Booking row has a credit and a debit that are not negative, and
\* exactly one of the two is not 0: the credit for deposits and incomes, the
\* debit for withdrawals.
C39_BookingSigns ==
    \A i \in 1..Len(run_db.bookings) :
        LET b == run_db.bookings[i]
        IN  /\ b.credit >= 0
            /\ b.debit >= 0
            /\ b.booking_type \in {"nominator_deposit", "nominator_income"}
                   => b.debit = 0 /\ b.credit > 0
            /\ b.booking_type = "nominator_withdrawal"
                   => b.credit = 0 /\ b.debit > 0

\* the committed rows of pool address a
LpRowsOf(a) == {k \in 1..Len(lpools) : lpools[k].account = a}

\* C40: the dedust handler creates the row of a pool once: the store never
\* holds two rows of one address; a run that found a row made no get-method
\* call and no step of it changes a row there is; and a run that ended at a
\* failed call or at a failed parsing leaves the store without a row of its
\* address.
C40_DedustCreateOnce ==
    /\ [](\A a \in LPools :
            /\ Cardinality(LpRowsOf(a)) <= 1
            /\ lp_tasks[a].outcome = "exists"
                   => lp_tasks[a].calls = 0 /\ LpRowsOf(a) # {}
            /\ lp_tasks[a].outcome \in {"call_failed", "parse_failed"}
                   => LpRowsOf(a) = {})
    /\ [][/\ IsPrefix(lpools, lpools')
          /\ \A a \in LPools :
                 lp_tasks'[a].outcome \in {"exists", "call_failed", "parse_failed"}
                     /\ lp_tasks[a].outcome = "none"
                     => lpools' = lpools]_vars

\* in a second cycle after a restart one run has found the row of the first
\* cycle, which has another balance than the archive has now, and the run of
\* the other address has ended at a failed parsing
C40_Witness ==
    /\ lp_boots = 1
    /\ lp_cycles = 2
    /\ \E a, b \in LPools :
           /\ lp_tasks[a].outcome = "exists"
           /\ \E k \in LpRowsOf(a) : lpools[k].balance # lp_tasks[a].balance
           /\ lp_tasks[b].outcome = "parse_failed"
           /\ LpRowsOf(b) = {}

=============================================================================
